---- MODULE Spec2Model ----
(***************************************************************************)
(* Model of the chess search driver of spoturno/hpc: the iterative         *)
(* deepening loop (best_move_search), the MPI master/worker root search    *)
(* (search, mpi_worker_loop), the cooperative stop flag and the recursive  *)
(* search_impl / qsearch_impl frames that count nodes and poll the flag.   *)
(*                                                                         *)
(* Three builds are covered through the variable `variant`:                *)
(*   "rs"  : src/search-rs.cpp lines 1-299  (single process, no TT)        *)
(*   "sht" : src/search-sht.cpp             (single process driver)        *)
(*   "mpi" : src/unnamed/part_000 (search-mpi) and the hybrid file         *)
(*           src/search-rs.cpp lines 300-862, whose master/worker code is  *)
(*           line for line the same.                                       *)
(* The position, the move generator and the static evaluator are external  *)
(* collaborators.  Two machines model the recursion, each as an explicit   *)
(* stack of frames with one step per shared access (stop flag read, node   *)
(* increment, table probe or store):                                       *)
(*   - the frames of the protocol runs follow the sequential search_impl   *)
(*     (search-rs.cpp 115-193); the number of legal moves of a position,   *)
(*     its in-check and draw status and its evaluation are drawn from      *)
(*     small sets, and a process's transposition table is summarised by    *)
(*     the calls during which it was written;                              *)
(*   - the frames of the TT runs search a small fixed graph of positions   *)
(*     with the transposition table, its probe and its stores, the mate    *)
(*     score adjustment and the null-move search of each build.            *)
(* Late move reductions need a fourth move and are not part of these       *)
(* machines.  The parallel region of search-sht.cpp runs with one thread   *)
(* in the TT runs and with a team of NThreads threads, one step per read   *)
(* or write of the shared variables, in SpecPar.                           *)
(*                                                                         *)
(* Specifications:                                                         *)
(*   Spec      : every build, up to MaxProcs processes, stop at any moment *)
(*   SpecMW    : the MPI build without a stop command (protocol)           *)
(*   SpecStop  : every build, up to StopProcs processes, stop at any moment*)
(*   FairStop  : SpecStop with every process running (termination)         *)
(*   SpecRun   : SpecStop without a stop command; FairRun, FairMW: SpecRun *)
(*               and SpecMW with every process running                     *)
(*   SpecCalls : SpecStop with up to MaxCalls go commands in a row         *)
(*   SpecTT    : the builds with a TT, one process, the TT runs            *)
(*   SpecTTStop: SpecTT with a stop command at any moment                  *)
(*   SpecPar   : search-sht.cpp with a team of threads at one ply          *)
(*   SpecHyb   : a worker of the hybrid build searching a wide node        *)
(*   SpecDeep  : one root search to depth 1 or MAX_PLY                     *)
(*   SpecSeq, SpecQ, SpecUci : the sequential search, qsearch_impl and the *)
(*               score conversion applied as functions to drawn inputs     *)
(***************************************************************************)
EXTENDS Integers, Sequences, FiniteSets, TLC

\* ---------------------------------------------------------------- bounds
MaxProcs == 3        \* MPI_Comm_size ranges over 1..MaxProcs
MaxRootMoves == 2    \* legal moves of the root position: 0..MaxRootMoves
MaxIterDepth == 2    \* max_depth ranges over 1..MaxIterDepth
Branch == 1          \* legal moves of a non-root position: 0..Branch
CapturePly == 2      \* quiescence generates captures only below this ply
StopProcs == 2       \* processes in the runs that receive a stop command: 1..StopProcs
MaxCalls == 2        \* best_move_search calls (go commands) in one run: 1..MaxCalls
MaxTTDepth == 4      \* max_depth of the runs that model the TT: 1..MaxTTDepth
TTBranch == 2        \* legal moves of a position in those runs: at most TTBranch
LastPos == 6         \* their positions are 0..LastPos, the root is position 0
TableSlots == 4      \* slots of the transposition table (TABLE_SIZE)
WideMoves == 4       \* legal moves of a position with many moves (hybrid workers)
HybDepth == 4        \* max_depth of the runs of the hybrid workers
MaxCaptures == 2     \* captures of the position qsearch_impl is applied to
WinMax == 2          \* its window: -WinMax <= alpha < beta <= WinMax
ScoreMargin == 2     \* scores converted: this far around 0 and around every limit
NThreads == 2        \* threads of the team of a parallel node
ParDepth == 2        \* max_depth of the runs with a team: 1..ParDepth

\* ------------------------------------------------- constants of search.h
INFINITE == 32001
MATE_SCORE == 32000
MAX_PLY == 128
MAX_MATE_SCORE == MATE_SCORE - MAX_PLY

\* static evaluations the evaluator may return (an external collaborator)
Evals == {-1, 1}

Procs == 0 .. (MaxProcs - 1)
Workers == 1 .. (MaxProcs - 1)
Variants == {"rs", "sht", "mpi"}
Slots == 0 .. (TableSlots - 1)
Positions == 0 .. LastPos
NoPos == -1

VARIABLES
  variant,     \* which build runs
  size,        \* MPI_Comm_size (1 for the single-process builds)
  max_depth,   \* argument of best_move_search
  nroot,       \* number of legal moves of the root position
  rootCheck,   \* pos.in_check() at the root
  preset,      \* value of the stop flag when best_move_search was called
  mpc,         \* position of the master (rank 0) in best_move_search/search
  stop,        \* stop[p]: stop flag of process p's SearchGlobals
  nodes,       \* nodes[p]: node counter of process p's SearchGlobals
  depth,       \* loop variable of the iterative deepening loop
  best_move,   \* std::optional<Move>: 0 is nullopt, else a root move 1..nroot
  retval,      \* value returned by best_move_search (0: nullopt)
  sres,        \* search_result of the current iteration
  ms,          \* locals of the master's root search
  chan0,       \* chan0[w]: tag-0 messages in flight, master -> worker w
  chan1,       \* chan1[w]: tag-1 messages in flight, worker w -> master
  wpc,         \* wpc[w]: position of worker w in mpi_worker_loop
  wk,          \* wk[w]: locals of worker w
  stack,       \* stack[p]: active search_impl/qsearch_impl frames of process p
  hist,        \* history variables used to state the properties
  calls,       \* number of best_move_search calls started (go commands)
  ttfrom,      \* ttfrom[p]: the calls during which process p's TT got its entries
  hybrid,      \* the MPI build is the hybrid file (TT of tt.h), not part_000
  evalOf,      \* evalOf[q]: static evaluation of position q (side to move's view)
  mated,       \* the position that is checkmate (NoPos: none)
  tt,          \* the transposition table of rank 0: tt[i] is slot i
  tstack,      \* active search frames of rank 0 in the runs that model the TT
  th,          \* history variables of the runs that model the TT
  team,        \* the OpenMP team of the node that runs its move loop in parallel
  io           \* argument and result of a function applied on its own

vars == << variant, size, max_depth, nroot, rootCheck, preset, mpc, stop, nodes,
           depth, best_move, retval, sres, ms, chan0, chan1, wpc, wk, stack, hist,
           calls, ttfrom, hybrid, evalOf, mated, tt, tstack, th, team, io >>

inputs == << variant, size, max_depth, nroot, rootCheck, preset >>

\* the inputs and the state of the runs that model the TT
posIn == << hybrid, evalOf, mated >>
pvars == << team, io >>
tvars == << posIn, pvars, tt, tstack, th >>

\* ------------------------------------------------------------- helpers
Max(a, b) == IF a >= b THEN a ELSE b
Min(a, b) == IF a <= b THEN a ELSE b

\* SearchResult {score, pv}: pv is std::optional<MoveList>; has = FALSE is nullopt
Result(score, has, pv) == [score |-> score, has |-> has, pv |-> pv]
NoResult == Result(0, FALSE, << >>)

\* SearchResult::operator- : the score negated, the PV kept
Negate(r) == [r EXCEPT !.score = - r.score]

\* Position::fen() of the position reached by root move m, and Position(fen)
Fen(m) == << "fen", m >>
ParseFen(f) == f[2]

\* a tag-0 or tag-1 MPI message: what the sender's buffer held
Msg(kind, val) == [kind |-> kind, val |-> val]

\* what an MPI_Recv of one scalar stores when it matches message m
Scalar(m) == IF m.kind \in {"fen", "pv"} THEN Len(m.val) ELSE m.val

\* ------------------------------------------------------------ the state
\* every local of the master's root search (search(), rank 0)
MsInit ==
  [ move_idx |-> 0, completed |-> 0, total |-> 0,
    busy |-> [w \in Workers |-> FALSE],
    wmoves |-> [w \in Workers |-> 0],
    best |-> Result(-INFINITE, FALSE, << >>),
    cur |-> 0, rscore |-> 0, cmove |-> 0, pvlen |-> 0 ]

\* locals of mpi_worker_loop
WkInit ==
  [ fen_size |-> 0, fen |-> << >>, search_depth |-> 0, initial_nodes |-> 0,
    result |-> NoResult, nodes_searched |-> 0, pv_length |-> 0 ]

NoScore == INFINITE + 1

NoCall == [move |-> 0, alpha |-> 0, beta |-> 0, depth |-> 0, ply |-> 0]

HistInit ==
  [ stopDepth |-> 0,      \* loop variable `depth` when the stop flag was set (0: not set)
    iters |-> << >>,      \* best_move after each iteration that passed the stop check
    dispatched |-> [m \in 1 .. MaxRootMoves |-> 0],  \* work items sent per root move
    replied |-> [m \in 1 .. MaxRootMoves |-> 0],     \* replies collected per root move
    reported |-> [m \in 1 .. MaxRootMoves |-> NoScore], \* score the worker sent for m
    active |-> [p \in Procs |-> 0],    \* frames of process p active when the flag was set
    track |-> [p \in Procs |-> FALSE],  \* such a frame is still active
    extra |-> [p \in Procs |-> 0],      \* nodes counted under such a frame since then
    sig |-> [w \in Workers |-> 0],      \* the length prefix worker w received last
    owed |-> [w \in Workers |-> 0],     \* work items of worker w not yet answered by a score
    msgs |-> [w \in Workers |-> 0],     \* tag-1 messages worker w sent since its last receive
    call |-> [w \in Workers |-> NoCall], \* arguments of worker w's last search_impl call
    rx |-> << >>,         \* kinds of the messages the master consumed for the current reply
    n0 |-> 0,             \* the master's node counter when the current root search began
    rep |-> 0,            \* sum of the node counts the workers sent since then
    board |-> [p \in Procs |-> << >>],
    roots |-> << >>,      \* the depths the root search was called with
    lines |-> << >>,      \* the depths of the progress lines
    lastpv |-> 0 ]        \* first move of the last non-empty PV a pass got  \* moves made and not unmade on the Position of p

\* ------------------------------------- the transposition table (rank 0)
\* Two tables exist: the TranspositionTable class of part_000 (lines 23-64)
\* and the table of tt.h used by search-sht.cpp and by the hybrid file, which
\* is not among the sources and is modelled as spec.md section 4.1 describes it.
HasTT == variant \in {"sht", "mpi"}
OwnTT == variant = "mpi" /\ ~hybrid

\* struct TTEntry: hash, depth, score, best_move, flag
TTEntry(key, d, score, move, flag) ==
  [key |-> key, depth |-> d, score |-> score, move |-> move, flag |-> flag]

\* TTEntry() : hash(0), depth(-1), score(0), best_move(0), flag(EXACT)
NewEntry == TTEntry(0, -1, 0, 0, "EXACT")

\* a slot of tt.h after clear(): every field zero
ZeroEntry == TTEntry(0, 0, 0, 0, "EXACT")

\* clear(): std::fill(table.begin(), table.end(), TTEntry())
Cleared == [i \in Slots |-> IF OwnTT THEN NewEntry ELSE ZeroEntry]

\* pos.hash(): one 64-bit value per position; position 1 hashes to 0
Hash(q) == (q + LastPos) % (LastPos + 1)

\* size_t index = hash % TABLE_SIZE
Index(h) == h % TableSlots

\* every store overwrites, whatever the slot holds
StoreAlways(t, h, d, score, move, flag) ==
  [t EXCEPT ![Index(h)] = TTEntry(h, d, score, move, flag)]

\* TranspositionTable::store(hash, depth, score, best_move, flag)
Store(t, h, d, score, move, flag) ==
  IF t[Index(h)].key # h \/ d >= t[Index(h)].depth
  THEN [t EXCEPT ![Index(h)] = TTEntry(h, d, score, move, flag)]
  ELSE t

\* tt.write(best_move, bound, depth, score, hash) of tt.h
Write(t, move, flag, d, score, h) ==
  IF t[Index(h)].key # h \/ t[Index(h)].depth <= d
  THEN [t EXCEPT ![Index(h)] = TTEntry(h, d, score, move, flag)]
  ELSE t

\* TranspositionTable::probe returns the slot when its key is the hash;
\* tt.probe of tt.h returns the slot and the caller compares the key
Probe(t, h) == t[Index(h)]

\* `if (tt_score >= MAX_MATE_SCORE) tt_score -= ss->ply; else if (...) += ss->ply`
FromTT(score, ply) ==
  IF score >= MAX_MATE_SCORE THEN score - ply
  ELSE IF score <= -MAX_MATE_SCORE THEN score + ply
  ELSE score

\* `if (store_score >= MAX_MATE_SCORE) store_score += ss->ply; else if (...) -= ss->ply`
ToTT(score, ply) ==
  IF score >= MAX_MATE_SCORE THEN score + ply
  ELSE IF score <= -MAX_MATE_SCORE THEN score - ply
  ELSE score

\* the bound test of the probe, the same in the three files
BoundPermits(flag, score, alpha, beta) ==
  \/ flag = "EXACT"
  \/ flag = "LOWER" /\ score >= beta
  \/ flag = "UPPER" /\ score <= alpha

\* what is remembered about the entry of a slot: the ply of the node that
\* stored it and its score before the ply adjustment (ply -1: never written
\* since the last clear), and the largest depth of the stores made for the
\* slot's key since the key last changed
NoWrite == [ply |-> -1, raw |-> 0, maxd |-> -1]
NoCut == [pos |-> NoPos]
NoDone == [pos |-> NoPos]
NoStore == [h |-> -1]

ThInit ==
  [ w |-> [i \in Slots |-> NoWrite],
    cut |-> NoCut,       \* the last return taken from the TT
    done |-> NoDone,     \* the last node that finished its move loop
    st |-> NoStore,      \* the store calls of that node
    blank |-> FALSE,     \* a probe found its hash as the key of a cleared slot
    surplus |-> FALSE ]  \* a return was taken from an entry deeper than the node

\* No team is running.  `ply` is the ply whose nodes run their parallel
\* region with a team of NThreads threads (-1: none, every region runs with
\* one thread), t the threads, `in` the thread inside the critical section
\* (0: none); cut and late are history: a thread has set alpha >= beta at
\* this node, a thread has started a move after that.
NoTeam == [on |-> FALSE, ply |-> -1, t |-> << >>, in |-> 0, cut |-> FALSE,
           late |-> FALSE]

\* no function is being applied
NoIo == [fn |-> "none"]

\* the state when best_move_search is called, whatever the build and the depth
InitAny ==
  /\ variant \in Variants
  /\ size \in 1 .. MaxProcs
  /\ (variant # "mpi" => size = 1)
  /\ nroot \in 0 .. MaxRootMoves
  /\ rootCheck \in BOOLEAN
  /\ (nroot > 0 => rootCheck = FALSE)   \* in_check() is read only when there is no move
  /\ preset \in BOOLEAN
  /\ mpc = "start"
  /\ stop = [p \in Procs |-> IF p = 0 THEN preset ELSE FALSE]
  /\ nodes = [p \in Procs |-> 0]
  /\ depth = 0
  /\ best_move = 0
  /\ retval = 0
  /\ sres = NoResult
  /\ ms = MsInit
  /\ chan0 = [w \in Workers |-> << >>]
  /\ chan1 = [w \in Workers |-> << >>]
  /\ wpc = [w \in Workers |-> IF w < size THEN "recv_len" ELSE "off"]
  /\ wk = [w \in Workers |-> WkInit]
  /\ stack = [p \in Procs |-> << >>]
  /\ hist = HistInit
  /\ calls = 1
  /\ ttfrom = [p \in Procs |-> {}]
  /\ evalOf = [q \in 1 .. LastPos |-> 1]
  /\ mated = NoPos
  /\ tt = Cleared
  /\ tstack = << >>
  /\ th = ThInit
  /\ team = NoTeam
  /\ io = NoIo

\* the master/worker code of part_000 and of the hybrid file is the same:
\* the protocol runs take part_000
Init ==
  /\ max_depth \in 1 .. MaxIterDepth
  /\ hybrid = FALSE
  /\ InitAny

\* ------------------------------------------- search frames (the recursion)
\* A frame is one activation of search_impl (fn = "s") or qsearch_impl
\* (fn = "q").  pc is where the activation continues:
\*   "enter"  at its first statement
\*   "expand" before sg.increment_nodes()
\*   "back1"  a child search has returned (first or scout search of move i)
\*   "back2"  the full-window re-search of move i has returned
\* sub is the (negated) result of the child that returned last.
Frame(fn, ply, d, alpha, beta) ==
  [ fn |-> fn, ply |-> ply, depth |-> d, alpha |-> alpha, beta |-> beta,
    pvnode |-> FALSE, pc |-> "enter", n |-> 0, i |-> 0, best |-> -INFINITE,
    pv |-> << >>, sub |-> NoResult ]

\* search_impl(pos, alpha, beta, depth, ss, sg): with depth <= 0 it only
\* forwards to qsearch_impl on the same ply and wraps the score
NewFrame(ply, d, alpha, beta) ==
  Frame(IF d <= 0 THEN "q" ELSE "s", ply, d, alpha, beta)

\* a result without a PV: `{score, {}}` is nullopt in search-rs.cpp and
\* part_000, `{score, libchess::MoveList()}` is an empty list in search-sht.cpp
Bare(score) == Result(score, variant = "sht", << >>)

\* what a step of the top frame does to the stack
Ret(r) == [kind |-> "ret", r |-> r]
Cont(f) == [kind |-> "cont", f |-> f]
Call(f, c) == [kind |-> "call", f |-> f, c |-> c]

Top(p) == stack[p][Len(stack[p])]

\* search_impl entered without reading the stop flag
SEnterOutNoStop(f, stopped, draw, ev) ==
  IF f.ply > 0 /\ draw THEN Ret(Bare(0))
  ELSE IF f.ply > 0 /\ f.ply >= MAX_PLY THEN Ret(Bare(ev))
  ELSE LET a == IF f.ply > 0 THEN Max(-MATE_SCORE + f.ply, f.alpha) ELSE f.alpha
           b == IF f.ply > 0 THEN Min(MATE_SCORE - f.ply, f.beta) ELSE f.beta
       IN IF f.ply > 0 /\ a >= b THEN Ret(Bare(a))
          ELSE Cont([f EXCEPT !.alpha = a, !.beta = b,
                              !.pvnode = (a # b - 1), !.pc = "expand"])

\* search_impl that goes on with an empty window after mate-distance pruning
SEnterOutNoPrune(f, stopped, draw, ev) ==
  IF f.ply > 0 /\ stopped THEN Ret(Bare(0))
  ELSE IF f.ply > 0 /\ draw THEN Ret(Bare(0))
  ELSE IF f.ply > 0 /\ f.ply >= MAX_PLY THEN Ret(Bare(ev))
  ELSE LET a == IF f.ply > 0 THEN Max(-MATE_SCORE + f.ply, f.alpha) ELSE f.alpha
           b == IF f.ply > 0 THEN Min(MATE_SCORE - f.ply, f.beta) ELSE f.beta
       IN Cont([f EXCEPT !.alpha = a, !.beta = b,
                         !.pvnode = (a # b - 1), !.pc = "expand"])

\* search_impl, from its first statement to the pv_node test
SEnterOut(f, stopped, draw, ev) ==
  IF f.ply > 0 /\ stopped THEN Ret(Bare(0))
  ELSE IF f.ply > 0 /\ draw THEN Ret(Bare(0))
  ELSE IF f.ply > 0 /\ f.ply >= MAX_PLY THEN Ret(Bare(ev))
  ELSE LET a == IF f.ply > 0 THEN Max(-MATE_SCORE + f.ply, f.alpha) ELSE f.alpha
           b == IF f.ply > 0 THEN Min(MATE_SCORE - f.ply, f.beta) ELSE f.beta
       IN IF f.ply > 0 /\ a >= b THEN Ret(Bare(a))
          ELSE Cont([f EXCEPT !.alpha = a, !.beta = b,
                              !.pvnode = (a # b - 1), !.pc = "expand"])

\* search_impl that returns a mate score for every position without a move
SExpandOutAlwaysMate(f, n, chk) ==
  IF n = 0 THEN Ret(Bare(-MATE_SCORE + f.ply))
  ELSE Call([f EXCEPT !.n = n, !.i = 1, !.best = -INFINITE, !.pv = << >>,
                      !.pc = "back1"],
            NewFrame(f.ply + 1, f.depth - 1, -f.beta, -f.alpha))

\* search_impl after increment_nodes: move generation, sort, first move
SExpandOut(f, n, chk) ==
  IF n = 0 THEN Ret(Bare(IF chk THEN -MATE_SCORE + f.ply ELSE 0))
  ELSE Call([f EXCEPT !.n = n, !.i = 1, !.best = -INFINITE, !.pv = << >>,
                      !.pc = "back1"],
            NewFrame(f.ply + 1, f.depth - 1, -f.beta, -f.alpha))

\* the stop check after a child: `if (ss->ply && sg.stop())` in
\* search-rs.cpp 169 and 547 and part_000 301; search-sht.cpp has none
StopsAfterChild(f, stopped) == variant # "sht" /\ f.ply > 0 /\ stopped

\* search_impl after the child call(s) of move i: stop check, best/alpha/pv
\* update, cutoff, next move (scout window) or return
SPostOut(f, stopped) ==
  IF StopsAfterChild(f, stopped) THEN Ret(Bare(0))
  ELSE LET better == f.sub.score > f.best
           best == IF better THEN f.sub.score ELSE f.best
           raise == better /\ best > f.alpha
           alpha == IF raise THEN best ELSE f.alpha
           pv == IF raise /\ f.pvnode
                 THEN << f.i >> \o (IF f.sub.has THEN f.sub.pv ELSE << >>)
                 ELSE f.pv
       IN IF (raise /\ alpha >= f.beta) \/ f.i = f.n
          THEN Ret(Result(best, TRUE, pv))
          ELSE Call([f EXCEPT !.best = best, !.alpha = alpha, !.pv = pv,
                              !.i = f.i + 1, !.pc = "back1"],
                    NewFrame(f.ply + 1, f.depth - 1, -alpha - 1, -alpha))

\* search_impl when the first or scout search of move i has returned
SBack1Out(f, stopped) ==
  IF f.i > 1 /\ f.sub.score > f.alpha
  THEN Call([f EXCEPT !.pc = "back2"],
            NewFrame(f.ply + 1, f.depth - 1, -f.beta, -f.alpha))
  ELSE SPostOut(f, stopped)

\* qsearch_impl that does not raise alpha to the static evaluation
QExpandOutNoFloor(f, ev, n, chk) ==
  IF f.ply >= MAX_PLY THEN Ret(Bare(ev))
  ELSE LET a == f.alpha
       IN IF ev >= f.beta THEN Ret(Bare(f.beta))
          ELSE IF chk /\ n = 0 THEN Ret(Bare(-MATE_SCORE + f.ply))
          ELSE IF n = 0 THEN Ret(Bare(a))
          ELSE Call([f EXCEPT !.alpha = a, !.n = n, !.i = 1,
                              !.best = -INFINITE, !.pc = "back1"],
                    Frame("q", f.ply + 1, 0, -f.beta, -a))

\* qsearch_impl after increment_nodes: ply guard, stand-pat, move generation
QExpandOut(f, ev, n, chk) ==
  IF f.ply >= MAX_PLY THEN Ret(Bare(ev))
  ELSE LET a == Max(f.alpha, ev)
       IN IF ev >= f.beta THEN Ret(Bare(f.beta))
          ELSE IF chk /\ n = 0 THEN Ret(Bare(-MATE_SCORE + f.ply))
          ELSE IF n = 0 THEN Ret(Bare(a))
          ELSE Call([f EXCEPT !.alpha = a, !.n = n, !.i = 1,
                              !.best = -INFINITE, !.pc = "back1"],
                    Frame("q", f.ply + 1, 0, -f.beta, -a))

\* qsearch_impl after the child call of move i
QPostOut(f, stopped) ==
  IF stopped THEN Ret(Bare(0))
  ELSE LET better == f.sub.score > f.best
           best == IF better THEN f.sub.score ELSE f.best
           raise == better /\ best > f.alpha
           alpha == IF raise THEN best ELSE f.alpha
       IN IF (raise /\ alpha >= f.beta) \/ f.i = f.n
          THEN Ret(Bare(alpha))
          ELSE Call([f EXCEPT !.best = best, !.alpha = alpha, !.i = f.i + 1],
                    Frame("q", f.ply + 1, 0, -f.beta, -alpha))

\* the stack of process p after the top frame's step `out`
StackAfter(p, out) ==
  LET s == stack[p]
      k == Len(s)
  IN CASE out.kind = "cont" -> [s EXCEPT ![k] = out.f]
       [] out.kind = "call" -> Append([s EXCEPT ![k] = out.f], out.c)
       [] out.kind = "ret" ->
            IF k = 1 THEN << >>
            ELSE [j \in 1 .. (k - 1) |->
                    IF j = k - 1 THEN [s[j] EXCEPT !.sub = Negate(out.r)] ELSE s[j]]

\* what `ss->ply` may read from the memory behind the last element of the
\* stack array: a value that passes the test `ss->ply >= MAX_PLY` or one
\* that does not
OobPly == {MAX_PLY - 1, MAX_PLY}

\* The stacks process p may have after the step `out`.  The frames are the
\* elements of std::array<SearchStack, MAX_PLY> from the one the outermost
\* call was given (its ply is its index); the callee of a frame gets
\* `ss + 1`, and behind the last element its ply is whatever that memory holds.
Entered(p, out) ==
  LET s == StackAfter(p, out)
      k == Len(s)
  IN IF out.kind = "call" /\ s[1].ply + k - 1 >= MAX_PLY
     THEN { [s EXCEPT ![k].ply = v] : v \in OobPly }
     ELSE { s }

\* the node after its null-move search keeps the null move on the board
BoardAfterNullKept(b, f, out) ==
  LET again == f.fn = "s" /\ f.pc = "back1" /\ out.kind = "call" /\ out.f.pc = "back2"
      back == IF f.pc \in {"back1", "back2"} /\ ~again
              THEN SubSeq(b, 1, Len(b) - 1) ELSE b
  IN IF out.kind = "call" /\ ~again
     THEN Append(back, IF out.f.pc = "null" THEN 0 ELSE out.f.i)
     ELSE back

\* The moves on the Position object `pos` of a process (Position keeps the
\* history that unmake_move pops; 0 is the null move) after the step `out`
\* of frame f, which was given that object.  A frame that continues after a
\* child first takes the move back, except before the re-search of the same
\* move: pos.unmake_move() at search-rs.cpp 167 and 545, part_000 257 and
\* 299, qsearch_impl 94, 161 and search-sht.cpp 88, each before the stop
\* check and the return that follow it.  A call of a child is preceded by
\* pos.make_move(move) or pos.make_null_move().  The parallel regions and
\* the master's dispatch move on copies (thread_pos, worker_pos) only.
BoardAfter(b, f, out) ==
  LET again == f.fn = "s" /\ f.pc = "back1" /\ out.kind = "call" /\ out.f.pc = "back2"
      back == IF f.pc \in {"back1", "back2", "null"} /\ ~again
              THEN SubSeq(b, 1, Len(b) - 1) ELSE b
  IN IF out.kind = "call" /\ ~again
     THEN Append(back, IF out.f.pc = "null" THEN 0 ELSE out.f.i)
     ELSE back

\* the outermost search_impl call of process p returns
Outermost(p, out) == out.kind = "ret" /\ Len(stack[p]) = 1

\* The step `out` of frame f ends its move loop and leaves a TT entry: the
\* builds with a TT write at the end of the loop, search-sht.cpp always
\* (203-205), the MPI builds when there is a best move (part_000 337-340) or
\* a PV (search-rs.cpp 572-576).  The table of a process is summarised by the
\* calls during which it was written.
LeavesEntry(f, out, stopped) ==
  /\ f.fn = "s" /\ f.pc \in {"back1", "back2"}
  /\ out.kind = "ret"
  /\ ~StopsAfterChild(f, stopped)
  /\ variant = "sht" \/ (variant = "mpi" /\ out.r.pv # << >>)

\* A step of the top frame of process p with outcome `out`, counting `cnt`
\* nodes: the stack changes, and when the outermost call returns its caller
\* continues (search() of the single-process builds and of the MPI build
\* with one process; mpi_worker_loop in a worker).
Deliver(p, out, cnt) ==
  /\ \E s \in Entered(p, out) : stack' = [stack EXCEPT ![p] = s]
  /\ nodes' = [nodes EXCEPT ![p] = @ + cnt]
  /\ IF Outermost(p, out) /\ p = 0
     THEN sres' = out.r /\ mpc' = "check"
     ELSE UNCHANGED << sres, mpc >>
  /\ IF Outermost(p, out) /\ p # 0
     THEN /\ wk' = [wk EXCEPT ![p].result = out.r,
                              ![p].nodes_searched = nodes'[p] - wk[p].initial_nodes]
          /\ wpc' = [wpc EXCEPT ![p] = "send_score"]
     ELSE UNCHANGED << wk, wpc >>
  /\ hist' = [hist EXCEPT
                !.extra[p] = IF hist.track[p] THEN @ + cnt ELSE @,
                !.track[p] = @ /\ ~Outermost(p, out),
                !.board[p] = BoardAfter(@, Top(p), out)]
  /\ ttfrom' = [ttfrom EXCEPT
                  ![p] = IF LeavesEntry(Top(p), out, stop[p]) THEN @ \cup {calls} ELSE @]
  /\ UNCHANGED << inputs, tvars, calls, stop, depth, best_move, retval, ms, chan0, chan1 >>

\* number of legal moves the generator may return at a frame
MovesAt(p, f) ==
  IF f.ply = 0 THEN {nroot}
  ELSE IF f.fn = "q" /\ f.ply >= CapturePly THEN {0}
  ELSE IF hybrid /\ f.fn = "s" THEN (IF f.ply = 1 THEN {0, WideMoves} ELSE {0})
  ELSE 0 .. Branch

\* search-rs.cpp 468: `bool use_openmp = (depth >= 3 && ss->ply == 0 &&
\* move_list.size() >= 4)`, for a node with n legal moves
UseOpenMP(f, n) == f.depth >= 3 /\ f.ply = 0 /\ n >= 4

\* search_impl lines 117-141: depth, stop, draw, ply and mate-distance exits
SEnter(p) ==
  /\ stack[p] # << >>
  /\ Top(p).fn = "s" /\ Top(p).pc = "enter"
  /\ \E draw \in BOOLEAN :
       \E ev \in (IF Top(p).ply >= MAX_PLY THEN Evals ELSE {0}) :
         Deliver(p, SEnterOut(Top(p), stop[p], draw, ev), 0)

\* search_impl lines 143-163: count the node, generate, sort, first child
SExpand(p) ==
  /\ stack[p] # << >>
  /\ Top(p).fn = "s" /\ Top(p).pc = "expand"
  /\ \E n \in MovesAt(p, Top(p)) :
       /\ ~(hybrid /\ UseOpenMP(Top(p), n))   \* the sequential branch (search-rs.cpp 532)
       /\ \E chk \in (IF n = 0 /\ Top(p).ply > 0 THEN BOOLEAN ELSE {rootCheck}) :
         Deliver(p, SExpandOut(Top(p), n, chk), 1)

\* search_impl lines 164-191 for the move whose first search returned
SBack1(p) ==
  /\ stack[p] # << >>
  /\ Top(p).fn = "s" /\ Top(p).pc = "back1"
  /\ Deliver(p, SBack1Out(Top(p), stop[p]), 0)

\* search_impl lines 167-191 for the move whose re-search returned
SBack2(p) ==
  /\ stack[p] # << >>
  /\ Top(p).fn = "s" /\ Top(p).pc = "back2"
  /\ Deliver(p, SPostOut(Top(p), stop[p]), 0)

\* qsearch_impl lines 55-57: the stop check at entry
QEnter(p) ==
  /\ stack[p] # << >>
  /\ Top(p).fn = "q" /\ Top(p).pc = "enter"
  /\ Deliver(p, IF stop[p] THEN Ret(Bare(0))
                ELSE Cont([Top(p) EXCEPT !.pc = "expand"]), 0)

\* qsearch_impl lines 59-93: count, stand-pat, generate, first child
QExpand(p) ==
  /\ stack[p] # << >>
  /\ Top(p).fn = "q" /\ Top(p).pc = "expand"
  /\ \E ev \in Evals : \E n \in MovesAt(p, Top(p)) :
       \E chk \in (IF n = 0 THEN BOOLEAN ELSE {FALSE}) :
         Deliver(p, QExpandOut(Top(p), ev, n, chk), 1)

\* qsearch_impl lines 94-111 for the move whose search returned
QBack(p) ==
  /\ stack[p] # << >>
  /\ Top(p).fn = "q" /\ Top(p).pc = "back1"
  /\ Deliver(p, QPostOut(Top(p), stop[p]), 0)

\* --------------------------------------------------- the master (rank 0)
\* the three tag-0 sends of one work item: fen_size, fen, depth
Work(m, d) == << Msg("len", Len(Fen(m))), Msg("fen", Fen(m)), Msg("depth", d) >>

\* an off-by-one in the move index: the move before the next one is sent again
NextWorkRepeats(idx, total, d) ==
  IF idx < total THEN Work(Max(idx, 1), d) ELSE << Msg("len", 0) >>

\* the master never has a move for a worker
NextWorkNone(idx, total, d) == << Msg("len", 0) >>

\* the tag-0 messages the master sends to worker w when it has (or has not)
\* a next move for it
NextWork(idx, total, d) ==
  IF idx < total THEN Work(idx + 1, d) ELSE << Msg("len", 0) >>

\* the root move a sequence of tag-0 messages asks a worker to search (0: none)
ItemMove(msgs) == IF Len(msgs) = 3 THEN ParseFen(msgs[2].val) ELSE 0

\* history: the work item in `msgs` counted for its root move
Tally(h, msgs) ==
  IF ItemMove(msgs) \in 1 .. MaxRootMoves
  THEN [h EXCEPT !.dispatched[ItemMove(msgs)] = @ + 1] ELSE h

\* search(): `SearchResult empty_result = {...}` and the loop sending -1
EmptyRootSignal == << Msg("len", -1) >>

\* the entry of best_move_search without set_stop_flag(false)
BmsEntryKeepsFlag ==
  /\ mpc = "start"
  /\ nodes' = [nodes EXCEPT ![0] = 0]
  /\ depth' = 1
  /\ mpc' = "iter"
  /\ tt' = Cleared
  /\ th' = [th EXCEPT !.w = [i \in Slots |-> NoWrite]]
  /\ ttfrom' = [ttfrom EXCEPT ![0] = {}]
  /\ UNCHANGED << inputs, posIn, pvars, tstack, calls, stop, best_move, retval, sres, ms,
                  chan0, chan1, wpc, wk, stack, hist >>

\* best_move_search: the resets at entry and the first loop test
BmsEntry ==
  /\ mpc = "start"
  /\ stop' = [stop EXCEPT ![0] = FALSE]
  /\ nodes' = [nodes EXCEPT ![0] = 0]
  /\ depth' = 1
  /\ mpc' = "iter"
  /\ tt' = Cleared
  /\ th' = [th EXCEPT !.w = [i \in Slots |-> NoWrite]]
  /\ ttfrom' = [ttfrom EXCEPT ![0] = {}]
  /\ UNCHANGED << inputs, posIn, pvars, tstack, calls, best_move, retval, sres, ms,
                  chan0, chan1, wpc, wk, stack, hist >>

\* the history after the call of the root search at the loop's depth
Called(h) == [h EXCEPT !.roots = Append(@, depth)]

\* the root search of the single-process builds (search-rs.cpp 202-208,
\* search-sht.cpp 268) and of the MPI build with one process (part_000 380-382,
\* reached only when the root has a move)
LocalRoot ==
  /\ stack' = [stack EXCEPT ![0] = << NewFrame(0, depth, -INFINITE, INFINITE) >>]
  /\ mpc' = "local"
  /\ ms' = MsInit
  /\ hist' = Called(hist)
  /\ UNCHANGED << chan0, sres >>

\* search() of the MPI build with no legal root move (part_000 369-377)
EmptyRoot ==
  /\ chan0' = [w \in Workers |->
                 IF w < size THEN chan0[w] \o EmptyRootSignal ELSE chan0[w]]
  /\ sres' = Result(IF rootCheck THEN -MATE_SCORE ELSE 0, FALSE, << >>)
  /\ mpc' = "check"
  /\ ms' = MsInit
  /\ hist' = Called(hist)
  /\ UNCHANGED stack

\* search() of the MPI build: the loop sending the initial work
\* (part_000 384-415); worker w gets root move w while moves remain
InitialDispatch ==
  LET sentTo == Min(size - 1, nroot)
  IN /\ chan0' = [w \in Workers |->
                    IF w < size THEN chan0[w] \o NextWork(Min(w - 1, nroot), nroot, depth)
                    ELSE chan0[w]]
     /\ ms' = [MsInit EXCEPT
                 !.total = nroot,
                 !.move_idx = sentTo,
                 !.busy = [w \in Workers |-> w <= sentTo],
                 !.wmoves = [w \in Workers |-> IF w <= sentTo THEN w ELSE 0]]
     /\ hist' = [Called(hist) EXCEPT
                   !.dispatched = [m \in 1 .. MaxRootMoves |->
                      Cardinality({w \in Workers :
                        w < size /\ ItemMove(NextWork(Min(w - 1, nroot), nroot, depth)) = m})],
                   !.replied = [m \in 1 .. MaxRootMoves |-> 0],
                   !.reported = [m \in 1 .. MaxRootMoves |-> NoScore],
                   !.rx = << >>,
                   !.n0 = nodes[0],
                   !.rep = 0]
     /\ mpc' = "recv_score"
     /\ UNCHANGED << stack, sres >>

\* one pass of the iterative deepening loop starts: the call of the root search
StartSearch ==
  /\ mpc = "iter"
  /\ IF variant # "mpi" THEN LocalRoot
     ELSE IF nroot = 0 THEN EmptyRoot
     ELSE IF size = 1 THEN LocalRoot
     ELSE InitialDispatch
  /\ UNCHANGED << inputs, tvars, calls, ttfrom, stop, nodes, depth, best_move, retval,
                  chan1, wpc, wk >>

\* the reply is taken to be for the move dispatched last, whoever sent it
RecvScoreLastMove ==
  /\ mpc = "recv_score"
  /\ \E w \in Workers :
       /\ w < size
       /\ chan1[w] # << >>
       /\ ms' = [ms EXCEPT !.cur = w, !.rscore = Scalar(Head(chan1[w])),
                           !.cmove = ms.move_idx]
       /\ chan1' = [chan1 EXCEPT ![w] = Tail(@)]
       /\ hist' = [hist EXCEPT !.rx = << Head(chan1[w]).kind >>]
  /\ mpc' = "recv_nodes"
  /\ UNCHANGED << inputs, tvars, calls, ttfrom, stop, nodes, depth, best_move, retval,
                  sres, chan0, wpc, wk, stack >>

\* MPI_Recv(&result_score, 1, MPI_INT, MPI_ANY_SOURCE, 1, ...): the oldest
\* tag-1 message of some worker; worker_moves[source] is taken as its move
RecvScore ==
  /\ mpc = "recv_score"
  /\ \E w \in Workers :
       /\ w < size
       /\ chan1[w] # << >>
       /\ ms' = [ms EXCEPT !.cur = w, !.rscore = Scalar(Head(chan1[w])),
                           !.cmove = ms.wmoves[w]]
       /\ chan1' = [chan1 EXCEPT ![w] = Tail(@)]
       /\ hist' = [hist EXCEPT !.rx = << Head(chan1[w]).kind >>]
  /\ mpc' = "recv_nodes"
  /\ UNCHANGED << inputs, tvars, calls, ttfrom, stop, nodes, depth, best_move, retval,
                  sres, chan0, wpc, wk, stack >>

\* the worker's count assigned to the counter instead of added to it
RecvNodesOverwrites ==
  /\ mpc = "recv_nodes"
  /\ chan1[ms.cur] # << >>
  /\ nodes' = [nodes EXCEPT ![0] = Scalar(Head(chan1[ms.cur]))]
  /\ chan1' = [chan1 EXCEPT ![ms.cur] = Tail(@)]
  /\ hist' = [hist EXCEPT !.rx = Append(@, Head(chan1[ms.cur]).kind)]
  /\ mpc' = "recv_pvlen"
  /\ UNCHANGED << inputs, tvars, calls, ttfrom, stop, depth, best_move, retval, sres, ms,
                  chan0, wpc, wk, stack >>

\* one increment per reply, whatever count the worker sent
RecvNodesCountsReplies ==
  /\ mpc = "recv_nodes"
  /\ chan1[ms.cur] # << >>
  /\ nodes' = [nodes EXCEPT ![0] = @ + 1]
  /\ chan1' = [chan1 EXCEPT ![ms.cur] = Tail(@)]
  /\ hist' = [hist EXCEPT !.rx = Append(@, Head(chan1[ms.cur]).kind)]
  /\ mpc' = "recv_pvlen"
  /\ UNCHANGED << inputs, tvars, calls, ttfrom, stop, depth, best_move, retval, sres, ms,
                  chan0, wpc, wk, stack >>

\* MPI_Recv(&worker_nodes, ...) from that worker and the increment_nodes loop
RecvNodes ==
  /\ mpc = "recv_nodes"
  /\ chan1[ms.cur] # << >>
  /\ nodes' = [nodes EXCEPT ![0] = @ + Scalar(Head(chan1[ms.cur]))]
  /\ chan1' = [chan1 EXCEPT ![ms.cur] = Tail(@)]
  /\ hist' = [hist EXCEPT !.rx = Append(@, Head(chan1[ms.cur]).kind)]
  /\ mpc' = "recv_pvlen"
  /\ UNCHANGED << inputs, tvars, calls, ttfrom, stop, depth, best_move, retval, sres, ms,
                  chan0, wpc, wk, stack >>

\* the worker's score taken without the negation
WorkerResultSameSign(score, move, pvtail) == Result(score, TRUE, << move >> \o pvtail)

\* `SearchResult worker_result = {-result_score, worker_pv}` with the root move
\* first (part_000 439-456)
WorkerResult(score, move, pvtail) == Result(- score, TRUE, << move >> \o pvtail)

\* the rest of one pass of the collection loop once the PV is known
\* (part_000 439-487): build worker_result, update best_result, count the
\* move, send the worker its next work item or the no-work signal, and
\* return best_result when completed_moves reaches total_moves
Collect(len, pvtail) ==
  LET w == ms.cur
      wres == WorkerResult(ms.rscore, ms.cmove, pvtail)
      best == IF wres.score > ms.best.score THEN wres ELSE ms.best
      more == ms.move_idx < ms.total
      done == ms.completed + 1
  IN /\ ms' = [ms EXCEPT
                 !.pvlen = len,
                 !.best = best,
                 !.completed = done,
                 !.busy[w] = more,
                 !.wmoves[w] = IF more THEN ms.move_idx + 1 ELSE @,
                 !.move_idx = IF more THEN @ + 1 ELSE @]
     /\ chan0' = [chan0 EXCEPT ![w] = @ \o NextWork(ms.move_idx, ms.total, depth)]
     /\ IF done < ms.total
        THEN mpc' = "recv_score" /\ UNCHANGED sres
        ELSE mpc' = "check" /\ sres' = best

\* MPI_Recv(&pv_length, ...) from that worker; without a PV the pass ends here
RecvPvLen ==
  /\ mpc = "recv_pvlen"
  /\ chan1[ms.cur] # << >>
  /\ LET len == Scalar(Head(chan1[ms.cur]))
         h == [hist EXCEPT !.rx = Append(@, Head(chan1[ms.cur]).kind)]
     IN IF len > 0
        THEN /\ ms' = [ms EXCEPT !.pvlen = len]
             /\ mpc' = "recv_pv"
             /\ hist' = h
             /\ UNCHANGED << chan0, sres >>
        ELSE /\ Collect(len, << >>)
             /\ hist' = Tally([h EXCEPT !.replied[ms.cmove] = @ + 1],
                              NextWork(ms.move_idx, ms.total, depth))
  /\ chan1' = [chan1 EXCEPT ![ms.cur] = Tail(@)]
  /\ UNCHANGED << inputs, tvars, calls, ttfrom, stop, nodes, depth, best_move, retval,
                  wpc, wk, stack >>

\* the payload of a message read as pv_length uint16 values
PvOf(m, len) ==
  LET v == IF m.kind \in {"fen", "pv"} THEN m.val ELSE << m.val >>
  IN [j \in 1 .. Min(len, Len(v)) |-> v[j]]

\* MPI_Recv(pv_values.data(), pv_length, ...) from that worker, then the
\* rest of the pass
RecvPv ==
  /\ mpc = "recv_pv"
  /\ chan1[ms.cur] # << >>
  /\ Collect(ms.pvlen, PvOf(Head(chan1[ms.cur]), ms.pvlen))
  /\ hist' = Tally([hist EXCEPT !.rx = Append(@, Head(chan1[ms.cur]).kind),
                                !.replied[ms.cmove] = @ + 1],
                   NextWork(ms.move_idx, ms.total, depth))
  /\ chan1' = [chan1 EXCEPT ![ms.cur] = Tail(@)]
  /\ UNCHANGED << inputs, tvars, calls, ttfrom, stop, nodes, depth, best_move, retval,
                  wpc, wk, stack >>

\* `*pv->begin()`: the first move of the PV; of an empty list it is whatever
\* the read past the end yields
FirstMove(r) == IF r.pv # << >> THEN {Head(r.pv)} ELSE 0 .. MaxRootMoves

\* the loop never ends before max_depth
BreaksLoopNever(r) == FALSE

\* `if (!pv) break;` (search-rs.cpp 258), `if (!pv || pv->empty()) break;`
\* (part_000 631); search-sht.cpp has no break (279-281 are commented out)
BreaksLoop(r) ==
  CASE variant = "rs" -> ~r.has
    [] variant = "mpi" -> ~r.has \/ r.pv = << >>
    [] variant = "sht" -> FALSE

\* the first move of the PV of result r, or `was` when r has none
PvHead(r, was) == IF r.has /\ r.pv # << >> THEN Head(r.pv) ELSE was

\* best_move is never assigned
NewBestKept(r) == {best_move}

\* best_move after the pass: search-sht.cpp assigns only from a non-empty PV
NewBest(r) ==
  IF variant = "sht" /\ ~(r.has /\ r.pv # << >>) THEN {best_move} ELSE FirstMove(r)

\* go_handler of main.cpp 49-54: what UCIService::bestmove is called with
Bestmove(bm) == IF bm # 0 THEN << "move", bm >> ELSE << "0000" >>

\* the loop body clearing the stop flag before the next pass
AfterSearchClearsFlag ==
  /\ mpc = "check"
  /\ IF depth > 1 /\ stop[0]
     THEN /\ retval' = best_move
          /\ mpc' = "done"
          /\ UNCHANGED << best_move, depth, hist >>
     ELSE IF BreaksLoop(sres)
     THEN /\ mpc' = "term"
          /\ hist' = [hist EXCEPT !.iters = Append(@, best_move)]
          /\ UNCHANGED << best_move, depth, retval >>
     ELSE /\ \E b \in NewBest(sres) :
               /\ best_move' = b
               /\ hist' = [hist EXCEPT !.iters = Append(@, b)]
          /\ depth' = depth + 1
          /\ mpc' = IF depth + 1 <= max_depth THEN "iter" ELSE "term"
          /\ UNCHANGED retval
  /\ stop' = [stop EXCEPT ![0] = FALSE]
  /\ UNCHANGED << inputs, tvars, calls, ttfrom, nodes, sres, ms, chan0, chan1, wpc,
                  wk, stack >>

\* the loop body without the stop check
AfterSearchNoStopCheck ==
  /\ mpc = "check"
  /\ IF BreaksLoop(sres)
     THEN /\ mpc' = "term"
          /\ hist' = [hist EXCEPT !.iters = Append(@, best_move)]
          /\ UNCHANGED << best_move, depth, retval >>
     ELSE /\ \E b \in NewBest(sres) :
               /\ best_move' = b
               /\ hist' = [hist EXCEPT !.iters = Append(@, b)]
          /\ depth' = depth + 1
          /\ mpc' = IF depth + 1 <= max_depth THEN "iter" ELSE "term"
          /\ UNCHANGED retval
  /\ UNCHANGED << inputs, tvars, calls, ttfrom, stop, nodes, sres, ms, chan0, chan1, wpc,
                  wk, stack >>

\* the stop check made at every depth, the first included
AfterSearchStopAtAnyDepth ==
  /\ mpc = "check"
  /\ IF stop[0]
     THEN /\ retval' = best_move
          /\ mpc' = "done"
          /\ UNCHANGED << best_move, depth, hist >>
     ELSE IF BreaksLoop(sres)
     THEN /\ mpc' = "term"
          /\ hist' = [hist EXCEPT !.iters = Append(@, best_move)]
          /\ UNCHANGED << best_move, depth, retval >>
     ELSE /\ \E b \in NewBest(sres) :
               /\ best_move' = b
               /\ hist' = [hist EXCEPT !.iters = Append(@, b)]
          /\ depth' = depth + 1
          /\ mpc' = IF depth + 1 <= max_depth THEN "iter" ELSE "term"
          /\ UNCHANGED retval
  /\ UNCHANGED << inputs, tvars, calls, ttfrom, stop, nodes, sres, ms, chan0, chan1, wpc,
                  wk, stack >>

\* best_move_search after the root search returned: the stop check, the
\* break, the best_move update, the info line, ++depth and the loop test
AfterSearch ==
  /\ mpc = "check"
  /\ IF depth > 1 /\ stop[0]
     THEN /\ retval' = best_move
          /\ mpc' = "done"
          /\ UNCHANGED << best_move, depth, hist >>
     ELSE IF BreaksLoop(sres)
     THEN /\ mpc' = "term"
          /\ hist' = [hist EXCEPT !.iters = Append(@, best_move),
                                  !.lastpv = PvHead(sres, @)]
          /\ UNCHANGED << best_move, depth, retval >>
     ELSE /\ \E b \in NewBest(sres) :
               /\ best_move' = b
               /\ hist' = [hist EXCEPT !.iters = Append(@, b),
                                       !.lines = Append(@, depth),
                                       !.lastpv = PvHead(sres, @)]
          /\ depth' = depth + 1
          /\ mpc' = IF depth + 1 <= max_depth THEN "iter" ELSE "term"
          /\ UNCHANGED retval
  /\ UNCHANGED << inputs, tvars, calls, ttfrom, stop, nodes, sres, ms, chan0, chan1, wpc,
                  wk, stack >>

\* the terminate signal of best_move_search (part_000 667-670)
TerminateSignal == << Msg("len", -1) >>

\* best_move_search after the loop: the terminate signals (MPI build) and
\* `return best_move`
Terminate ==
  /\ mpc = "term"
  /\ chan0' = [w \in Workers |->
                 IF variant = "mpi" /\ w < size THEN chan0[w] \o TerminateSignal
                 ELSE chan0[w]]
  /\ retval' = best_move
  /\ mpc' = "done"
  /\ UNCHANGED << inputs, tvars, calls, ttfrom, stop, nodes, depth, best_move, sres, ms,
                  chan1, wpc, wk, stack, hist >>

\* stop_handler of main.cpp: the UCI `stop` command arrives while
\* best_move_search runs (a flag set after the loop has ended is never read)
StopHandler ==
  /\ mpc \notin {"start", "term", "done"}
  /\ ~stop[0]
  /\ stop' = [stop EXCEPT ![0] = TRUE]
  /\ hist' = [hist EXCEPT !.stopDepth = depth,
                          !.active = [p \in Procs |-> Len(stack[p])],
                          !.track = [p \in Procs |-> stack[p] # << >>],
                          !.extra = [p \in Procs |-> 0]]
  /\ UNCHANGED << inputs, tvars, calls, ttfrom, mpc, nodes, depth, best_move, retval,
                  sres, ms, chan0, chan1,
                  wpc, wk, stack >>

\* go_handler of main.cpp called again: the next `go` command, read by the
\* UCI loop once best_move_search has returned.  The locals of the call that
\* returned are gone; the SearchGlobals, the tables and the workers are as
\* that call left them.
GoAgain ==
  /\ mpc = "done"
  /\ calls < MaxCalls
  /\ calls' = calls + 1
  /\ mpc' = "start"
  /\ depth' = 0
  /\ best_move' = 0
  /\ retval' = 0
  /\ sres' = NoResult
  /\ ms' = MsInit
  /\ hist' = [hist EXCEPT !.stopDepth = 0, !.iters = << >>,
                          !.roots = << >>, !.lines = << >>, !.lastpv = 0,
                          !.active = [p \in Procs |-> 0],
                          !.track = [p \in Procs |-> FALSE],
                          !.extra = [p \in Procs |-> 0],
                          !.dispatched = [m \in 1 .. MaxRootMoves |-> 0],
                          !.replied = [m \in 1 .. MaxRootMoves |-> 0],
                          !.reported = [m \in 1 .. MaxRootMoves |-> NoScore],
                          !.rx = << >>, !.n0 = 0, !.rep = 0]
  /\ UNCHANGED << inputs, tvars, ttfrom, stop, nodes, chan0, chan1, wpc, wk, stack >>

\* ------------------------------------------------ the workers (rank > 0)
\* the worker searching at the depth it was sent
WorkerCallFullDepth(m, d) ==
  [move |-> m, alpha |-> -INFINITE, beta |-> INFINITE, depth |-> d, ply |-> 1]

\* the search_impl call of mpi_worker_loop (part_000 712-713)
WorkerCall(m, d) ==
  [move |-> m, alpha |-> -INFINITE, beta |-> INFINITE, depth |-> d - 1, ply |-> 1]

\* MPI_Recv(&fen_size, ...) and the test of the length prefix: terminate,
\* no work, or a work item
WRecvLen(w) ==
  /\ wpc[w] = "recv_len"
  /\ chan0[w] # << >>
  /\ LET v == Scalar(Head(chan0[w]))
     IN /\ wk' = [wk EXCEPT ![w].fen_size = v]
        /\ wpc' = [wpc EXCEPT ![w] = IF v = -1 THEN "exit"
                                     ELSE IF v = 0 THEN "recv_len" ELSE "recv_item"]
  /\ chan0' = [chan0 EXCEPT ![w] = Tail(@)]
  /\ hist' = [hist EXCEPT !.msgs[w] = 0, !.sig[w] = Scalar(Head(chan0[w]))]
  /\ UNCHANGED << inputs, tvars, calls, ttfrom, mpc, stop, nodes, depth, best_move,
                  retval, sres, ms, chan1,
                  stack >>

\* MPI_Recv(fen_buffer.data(), fen_size, MPI_CHAR, ...), MPI_Recv(&search_depth,
\* ...), Position(fen), initial_nodes and the call of search_impl; the master
\* sends the three messages of a work item back to back
WRecvItem(w) ==
  /\ wpc[w] = "recv_item"
  /\ Len(chan0[w]) >= 2
  /\ LET d == Scalar(chan0[w][2])
         c == WorkerCall(ParseFen(chan0[w][1].val), d)
     IN /\ wk' = [wk EXCEPT ![w].fen = chan0[w][1].val, ![w].search_depth = d,
                            ![w].initial_nodes = nodes[w]]
        /\ stack' = [stack EXCEPT ![w] = << NewFrame(c.ply, c.depth, c.alpha, c.beta) >>]
        /\ hist' = [hist EXCEPT !.owed[w] = @ + 1, !.call[w] = c]
  /\ wpc' = [wpc EXCEPT ![w] = "search"]
  /\ chan0' = [chan0 EXCEPT ![w] = Tail(Tail(@))]
  /\ UNCHANGED << inputs, tvars, calls, ttfrom, mpc, stop, nodes, depth, best_move,
                  retval, sres, ms, chan1 >>

\* the tag-1 messages of one reply, in the order mpi_worker_loop sends them
ReplyOrder == << "score", "nodes", "pvlen", "pv" >>

\* `int pv_length = result.pv ? result.pv->size() : 0;`
PvLength(r) == IF r.has THEN Len(r.pv) ELSE 0

\* the value worker w sends in its k-th message of a reply
ReplyValue(w, kind) ==
  CASE kind = "score" -> wk[w].result.score
    [] kind = "nodes" -> wk[w].nodes_searched
    [] kind = "pvlen" -> PvLength(wk[w].result)
    [] kind = "pv" -> wk[w].result.pv

\* the PV array sent even when it is empty
AfterSendAlwaysPv(w, k) ==
  IF k = 1 THEN "send_nodes"
  ELSE IF k = 2 THEN "send_pvlen"
  ELSE IF k = 3 THEN "send_pv"
  ELSE "recv_len"

\* where mpi_worker_loop continues after its k-th send
AfterSend(w, k) ==
  IF k = 1 THEN "send_nodes"
  ELSE IF k = 2 THEN "send_pvlen"
  ELSE IF k = 3 /\ PvLength(wk[w].result) > 0 THEN "send_pv"
  ELSE "recv_len"

\* the locals of the loop body end with the pass (they are declared in it)
WkAfterSend(w, k) ==
  IF AfterSend(w, k) = "recv_len" THEN WkInit
  ELSE [wk[w] EXCEPT !.pv_length = IF k = 3 THEN PvLength(wk[w].result) ELSE @]

\* the k-th MPI_Send of a reply (part_000 717, 720, 724, 731)
WSend(w, k) ==
  /\ wpc[w] = << "send_score", "send_nodes", "send_pvlen", "send_pv" >>[k]
  /\ chan1' = [chan1 EXCEPT ![w] = Append(@, Msg(ReplyOrder[k], ReplyValue(w, ReplyOrder[k])))]
  /\ wpc' = [wpc EXCEPT ![w] = AfterSend(w, k)]
  /\ wk' = [wk EXCEPT ![w] = WkAfterSend(w, k)]
  /\ hist' = [hist EXCEPT
                !.msgs[w] = @ + 1,
                !.owed[w] = IF k = 1 THEN @ - 1 ELSE @,
                !.rep = IF k = 2 THEN @ + wk[w].nodes_searched ELSE @,
                !.reported = IF k = 1
                             THEN [@ EXCEPT ![hist.call[w].move] = wk[w].result.score]
                             ELSE @]
  /\ UNCHANGED << inputs, tvars, calls, ttfrom, mpc, stop, nodes, depth, best_move,
                  retval, sres, ms, chan0, stack >>

WSendScore(w) == WSend(w, 1)
WSendNodes(w) == WSend(w, 2)
WSendPvLen(w) == WSend(w, 3)
WSendPv(w) == WSend(w, 4)

\* ------------------------------------------ positions of the TT runs
\* The position graph of these runs: a move of value m leads from position q
\* to position q + m, so different move orders reach the same position, also
\* at different plies.  The generator lists the larger move first.  A
\* position is quiet (no capture, no check) unless it is `mated`, which has
\* no legal move and is in check.
MovesOf(q) ==
  LET legal == { m \in 1 .. TTBranch : q + m <= LastPos /\ q # mated /\ q <= LastPos }
      pick[k \in 0 .. TTBranch] ==
        IF k = 0 THEN << >>
        ELSE IF k \in legal THEN << k >> \o pick[k - 1] ELSE pick[k - 1]
  IN pick[TTBranch]

\* make_move
Child(q, m) == q + m

\* make_null_move: the same position with the other side to move
NullPos(q) == q + LastPos + 1

\* evaluate(pos), from the side to move's view
EvalAt(q) == IF q > LastPos THEN - evalOf[q - LastPos - 1] ELSE evalOf[q]

\* sort_moves with the keys of quiet moves: the TT move first, the others in
\* generation order
Sorted(moves, tt_move) ==
  IF \E k \in 1 .. Len(moves) : moves[k] = tt_move
  THEN << tt_move >> \o SelectSeq(moves, LAMBDA m : m # tt_move)
  ELSE moves

\* --------------------------------- the sequential search as a function
\* The result of frame f of search_impl or qsearch_impl (search-rs.cpp 54-193)
\* searching position q, with no stop flag: the steps of the frame, its
\* children searched to the end one after the other.  The positions of these
\* runs are quiet, qsearch_impl finds no capture or promotion.
RECURSIVE SeqRun(_, _), SeqLoop(_, _, _)
SeqLoop(q, f, c) ==
  LET k == Child(q, MovesOf(q)[f.i])
      f1 == [f EXCEPT !.sub = Negate(SeqRun(k, c))]
      b == SBack1Out(f1, FALSE)
      out == IF b.kind = "call" /\ b.f.pc = "back2"
             THEN SPostOut([b.f EXCEPT !.sub = Negate(SeqRun(k, b.c))], FALSE)
             ELSE b
  IN IF out.kind = "ret" THEN out.r ELSE SeqLoop(q, out.f, out.c)

SeqRun(q, f) ==
  IF f.fn = "q" THEN QExpandOut(f, EvalAt(q), 0, q = mated).r
  ELSE LET e == SEnterOut(f, FALSE, FALSE, EvalAt(q))
           x == SExpandOut(e.f, Len(MovesOf(q)), q = mated)
       IN IF e.kind = "ret" THEN e.r
          ELSE IF x.kind = "ret" THEN x.r
          ELSE SeqLoop(q, x.f, x.c)

\* search(pos, sg, depth) of search-rs.cpp 202-208: the score of the root
\* search of position q to depth d
SeqScore(q, d) == SeqRun(q, NewFrame(0, d, -INFINITE, INFINITE)).score

\* qsearch_impl (search-rs.cpp 54-112) applied to a position given as the tree
\* of its captures, with no stop flag: t.ev is evaluate(pos), t.chk is
\* in_check() of a position without a move, t.kids are the positions after
\* the moves qsearch_impl generates
RECURSIVE QRun(_, _), QLoop(_, _, _)
QLoop(t, f, c) ==
  LET out == QPostOut([f EXCEPT !.sub = Negate(QRun(t.kids[f.i], c))], FALSE)
  IN IF out.kind = "ret" THEN out.r ELSE QLoop(t, out.f, out.c)

QRun(t, f) ==
  LET out == QExpandOut(f, t.ev, Len(t.kids), t.chk)
  IN IF out.kind = "ret" THEN out.r ELSE QLoop(t, out.f, out.c)

\* a division that rounds down
CDivFloor(a, b) == a \div b

\* a / b of two ints in C++: the quotient truncated towards zero
CDiv(a, b) == IF a >= 0 THEN a \div b ELSE - ((- a) \div b)

\* the UCIScore of a root score (search-rs.cpp 264-272, 763-771,
\* search-sht.cpp 287-291, part_000 637-645)
UciScore(score) ==
  IF score <= - MAX_MATE_SCORE
  THEN [type |-> "mate", value |-> CDiv(- score - MATE_SCORE, 2)]
  ELSE IF score >= MAX_MATE_SCORE
  THEN [type |-> "mate", value |-> CDiv(- score + MATE_SCORE + 1, 2)]
  ELSE [type |-> "cp", value |-> score]

\* ------------------------------------------- search frames with the TT
\* a frame of search_impl in a build with a TT: the frame of the sequential
\* search plus pos (the position), a0 (alpha when the move loop starts), ttm
\* (tt_move, 0: none), bm (the move that produced best_score, 0: none) and
\* moves (the sorted move list)
TFrame(q, ply, d, alpha, beta) ==
  NewFrame(ply, d, alpha, beta)
    @@ [pos |-> q, a0 |-> alpha, ttm |-> 0, bm |-> 0, moves |-> << >>]

\* the probe of part_000 taken at any remaining depth
ProbeOwnAnyDepth(f, e) ==
  IF e.key = Hash(f.pos)
       /\ BoundPermits(e.flag, FromTT(e.score, f.ply), f.alpha, f.beta)
  THEN Ret(Result(FromTT(e.score, f.ply), TRUE, IF e.move # 0 THEN << e.move >> ELSE << >>))
  ELSE Cont([f EXCEPT !.ttm = IF e.key = Hash(f.pos) THEN e.move ELSE 0])

\* part_000 210-237: the probe, the cutoff and tt_move
ProbeOwn(f, e) ==
  IF e.key = Hash(f.pos) /\ e.depth >= f.depth
       /\ BoundPermits(e.flag, FromTT(e.score, f.ply), f.alpha, f.beta)
  THEN Ret(Result(FromTT(e.score, f.ply), TRUE, IF e.move # 0 THEN << e.move >> ELSE << >>))
  ELSE Cont([f EXCEPT !.ttm = IF e.key = Hash(f.pos) THEN e.move ELSE 0])

\* search-sht.cpp 135-149, search-rs.cpp 438-452: the probe of the builds
\* that use tt.h
ProbeShared(f, e) ==
  IF e.key = Hash(f.pos) /\ ~f.pvnode /\ e.depth >= f.depth
       /\ BoundPermits(e.flag, e.score, f.alpha, f.beta)
  THEN Ret(Bare(e.score))
  ELSE Cont([f EXCEPT !.ttm = IF e.key = Hash(f.pos) THEN e.move ELSE 0])

\* search_impl from its first statement to the TT probe
TEnterOut(f, stopped, e) ==
  LET o == SEnterOut(f, stopped, FALSE, 0)
  IN IF o.kind = "ret" THEN o
     ELSE IF OwnTT THEN ProbeOwn([o.f EXCEPT !.a0 = o.f.alpha], e)
     ELSE ProbeShared([o.f EXCEPT !.a0 = o.f.alpha], e)

\* the call of the first move of the sorted list, on the full window
FirstChild(f) ==
  Call([f EXCEPT !.i = 1, !.best = -INFINITE, !.pv = << >>, !.bm = 0, !.pc = "back1"],
       TFrame(Child(f.pos, f.moves[1]), f.ply + 1, f.depth - 1, -f.beta, -f.alpha))

\* part_000 249-263: the condition of the null-move search
NullMove(f) ==
  /\ OwnTT
  /\ ~f.pvnode /\ f.pos # mated /\ f.depth >= 3 /\ f.ply > 0
  /\ EvalAt(f.pos) >= f.beta

\* search_impl after increment_nodes: move generation, null move, sort,
\* first move
TExpandOut(f) ==
  IF MovesOf(f.pos) = << >>
  THEN Ret(Bare(IF f.pos = mated THEN -MATE_SCORE + f.ply ELSE 0))
  ELSE IF NullMove(f)
  THEN Call([f EXCEPT !.pc = "null"],
            TFrame(NullPos(f.pos), f.ply + 1, f.depth - 3 - 1, -f.beta, -f.beta + 1))
  ELSE FirstChild([f EXCEPT !.moves = Sorted(MovesOf(f.pos), f.ttm)])

\* the null-move search has returned
TNullOut(f) ==
  IF f.sub.score >= f.beta THEN Ret(Bare(f.beta))
  ELSE FirstChild([f EXCEPT !.moves = Sorted(MovesOf(f.pos), f.ttm)])

\* the locals of the node after the result of move i is taken in
Taken(f) ==
  LET better == f.sub.score > f.best
      raise == better /\ f.sub.score > f.alpha
  IN [f EXCEPT !.best = IF better THEN f.sub.score ELSE @,
               !.bm = IF better THEN f.moves[f.i] ELSE @,
               !.alpha = IF raise THEN f.sub.score ELSE @,
               !.pv = IF raise /\ f.pvnode
                      THEN << f.moves[f.i] >> \o (IF f.sub.has THEN f.sub.pv ELSE << >>)
                      ELSE @]

\* the move loop ends after move i: cutoff or last move
LoopEnds(f) == Taken(f).alpha >= f.beta \/ f.i = Len(f.moves)

\* the bound as spec.md 4.2 step 9 gives it
BoundOfSpec(best, a0, beta) ==
  IF best >= beta THEN "LOWER" ELSE IF best <= a0 THEN "UPPER" ELSE "EXACT"

\* the bound of the final store: part_000 330, search-sht.cpp 203-204,
\* search-rs.cpp 572-573 (g is the node after its move loop)
BoundOf(g) ==
  IF OwnTT THEN (IF g.best <= g.alpha THEN "UPPER" ELSE "EXACT")
  ELSE IF g.best >= g.beta THEN "LOWER"
  ELSE IF g.best < g.alpha THEN "UPPER" ELSE "EXACT"

\* the move given to the store: best_move (part_000 339), tt_move
\* (search-sht.cpp 205), the first PV move (search-rs.cpp 575)
MoveStored(g) ==
  IF OwnTT THEN g.bm
  ELSE IF variant = "sht" THEN g.ttm
  ELSE IF g.pv # << >> THEN Head(g.pv) ELSE 0

\* the final store is made: `if (best_move.value() != 0)` (part_000 331),
\* always (search-sht.cpp 205), `if (!pv.empty())` (search-rs.cpp 574)
Stores(g) ==
  IF OwnTT THEN g.bm # 0
  ELSE IF variant = "sht" THEN TRUE
  ELSE g.pv # << >>

\* the score given to the final store
ScoreStored(g) == IF OwnTT THEN ToTT(g.best, g.ply) ELSE g.best

\* the table after the node's move loop: the store at the cutoff (part_000
\* 320-323) and the final store
TableAfter(t, g) ==
  LET h == Hash(g.pos)
      t1 == IF OwnTT /\ g.alpha >= g.beta
            THEN Store(t, h, g.depth, g.best, g.bm, "LOWER") ELSE t
  IN IF ~Stores(g) THEN t1
     ELSE IF OwnTT THEN Store(t1, h, g.depth, ScoreStored(g), MoveStored(g), BoundOf(g))
     ELSE Write(t1, MoveStored(g), BoundOf(g), g.depth, ScoreStored(g), h)

\* search_impl after the child call(s) of move i
TPostOut(f, stopped) ==
  IF StopsAfterChild(f, stopped) THEN Ret(Bare(0))
  ELSE IF LoopEnds(f) THEN Ret(Result(Taken(f).best, TRUE, Taken(f).pv))
  ELSE Call([Taken(f) EXCEPT !.i = f.i + 1, !.pc = "back1"],
            TFrame(Child(f.pos, f.moves[f.i + 1]), f.ply + 1, f.depth - 1,
                   -Taken(f).alpha - 1, -Taken(f).alpha))

\* search_impl when the first or scout search of move i has returned
TBack1Out(f, stopped) ==
  IF f.i > 1 /\ f.sub.score > f.alpha
  THEN Call([f EXCEPT !.pc = "back2"],
            TFrame(Child(f.pos, f.moves[f.i]), f.ply + 1, f.depth - 1, -f.beta, -f.alpha))
  ELSE TPostOut(f, stopped)

\* qsearch_impl of a quiet or mated position: stop check, node count,
\* stand-pat, no capture to search
TQOut(f, stopped) ==
  IF stopped THEN Ret(Bare(0))
  ELSE QExpandOut(f, EvalAt(f.pos), 0, f.pos = mated)

\* ---------------------------------------- history of the TT runs
\* the probe of node f on entry e returned the stored score
CutNoted(h, f, e, score) ==
  [h EXCEPT !.cut = [pos |-> f.pos, ply |-> f.ply, depth |-> f.depth,
                     pvnode |-> f.pvnode, e |-> e, score |-> score,
                     wply |-> h.w[Index(Hash(f.pos))].ply,
                     wraw |-> h.w[Index(Hash(f.pos))].raw],
             !.surplus = @ \/ e.depth > f.depth]

\* node g finished its move loop on table t
DoneNoted(h, t, g) ==
  LET hh == Hash(g.pos)
      slot == Index(hh)
      t2 == TableAfter(t, g)
      final == TTEntry(hh, g.depth, ScoreStored(g), MoveStored(g), BoundOf(g))
      atcut == TTEntry(hh, g.depth, g.best, g.bm, "LOWER")
      called == Stores(g) \/ (OwnTT /\ g.alpha >= g.beta)
      mine == Stores(g) /\ t2[slot] = final
      maxd == IF ~called THEN h.w[slot].maxd
              ELSE IF t2[slot].key # t[slot].key THEN g.depth
              ELSE IF t2[slot].key = hh THEN Max(h.w[slot].maxd, g.depth)
              ELSE h.w[slot].maxd
  IN [h EXCEPT
        !.done = [pos |-> g.pos, ply |-> g.ply, depth |-> g.depth, a0 |-> g.a0,
                  beta |-> g.beta, best |-> g.best, bm |-> g.bm, pvnode |-> g.pvnode,
                  wrote |-> Stores(g), mine |-> mine, left |-> t2[slot]],
        !.st = IF called
               THEN [h |-> hh, d |-> g.depth, before |-> t[slot], after |-> t2[slot],
                     new |-> IF Stores(g) THEN final ELSE atcut]
               ELSE NoStore,
        !.w[slot] = IF mine THEN [ply |-> g.ply, raw |-> g.best, maxd |-> maxd]
                    ELSE [@ EXCEPT !.maxd = maxd]]

\* --------------------------------------------- the search with the TT
\* a stack after the step `out` of its top frame
After(s, out) ==
  CASE out.kind = "cont" -> [s EXCEPT ![Len(s)] = out.f]
    [] out.kind = "call" -> Append([s EXCEPT ![Len(s)] = out.f], out.c)
    [] out.kind = "ret" ->
         IF Len(s) = 1 THEN << >>
         ELSE [j \in 1 .. (Len(s) - 1) |->
                 IF j = Len(s) - 1 THEN [s[j] EXCEPT !.sub = Negate(out.r)] ELSE s[j]]

TTop == tstack[Len(tstack)]

\* a step of the top frame with outcome `out`, counting `cnt` nodes; when
\* the root call returns, best_move_search continues
TStep(out, cnt) ==
  /\ tstack' = After(tstack, out)
  /\ nodes' = [nodes EXCEPT ![0] = @ + cnt]
  /\ IF out.kind = "ret" /\ Len(tstack) = 1
     THEN sres' = out.r /\ mpc' = "check"
     ELSE UNCHANGED << sres, mpc >>
  /\ hist' = [hist EXCEPT !.board[0] = BoardAfter(@, TTop, out)]
  /\ UNCHANGED << inputs, posIn, io, calls, ttfrom, stop, depth, best_move, retval, ms,
                  chan0, chan1, wpc, wk, stack >>

\* such a step of a thread that is not in a team
TDeliver(out, cnt) == TStep(out, cnt) /\ UNCHANGED team

\* best_move_search calls the root search: search-sht.cpp 268, and search()
\* of the MPI builds with one process (part_000 380-382, search-rs.cpp 609-612)
TStart ==
  /\ mpc = "iter"
  /\ HasTT
  /\ tstack' = << TFrame(0, 0, depth, -INFINITE, INFINITE) >>
  /\ mpc' = "local"
  /\ hist' = Called(hist)
  /\ UNCHANGED << inputs, posIn, pvars, tt, th, calls, ttfrom, stop, nodes, depth, best_move,
                  retval, sres, ms, chan0, chan1, wpc, wk, stack >>

\* search_impl from its first statement through the TT probe
TEnter ==
  /\ tstack # << >>
  /\ TTop.fn = "s" /\ TTop.pc = "enter"
  /\ LET f == TTop
         e == Probe(tt, Hash(f.pos))
         before == SEnterOut(f, stop[0], FALSE, 0)
         out == TEnterOut(f, stop[0], e)
         probed == before.kind = "cont"
     IN /\ TDeliver(out, 0)
        /\ th' = IF probed /\ out.kind = "ret"
                 THEN CutNoted(th, before.f, e, out.r.score)
                 ELSE IF probed /\ e.key = Hash(f.pos) /\ th.w[Index(Hash(f.pos))].ply < 0
                 THEN [th EXCEPT !.blank = TRUE]
                 ELSE th
  /\ UNCHANGED tt

\* search_impl: increment_nodes, move generation, null move or first move
TExpand ==
  /\ tstack # << >>
  /\ TTop.fn = "s" /\ TTop.pc = "expand"
  /\ TTop.ply # team.ply
  /\ TDeliver(TExpandOut(TTop), 1)
  /\ UNCHANGED << tt, th >>

\* search_impl when the null-move search has returned
TNull ==
  /\ tstack # << >>
  /\ TTop.fn = "s" /\ TTop.pc = "null"
  /\ TDeliver(TNullOut(TTop), 0)
  /\ UNCHANGED << tt, th >>

\* the node finishes its move loop with this step
Completes(f, stopped) == ~StopsAfterChild(f, stopped) /\ LoopEnds(f)

\* the end of the loop body of move i, and the TT store when the loop ends
TFinish(f) ==
  /\ TDeliver(TPostOut(f, stop[0]), 0)
  /\ IF Completes(f, stop[0])
     THEN /\ tt' = TableAfter(tt, Taken(f))
          /\ th' = DoneNoted(th, tt, Taken(f))
     ELSE UNCHANGED << tt, th >>

\* search_impl when the first or scout search of move i has returned
TBack1 ==
  /\ tstack # << >>
  /\ TTop.fn = "s" /\ TTop.pc = "back1"
  /\ IF TTop.i > 1 /\ TTop.sub.score > TTop.alpha
     THEN /\ TDeliver(TBack1Out(TTop, stop[0]), 0)
          /\ UNCHANGED << tt, th >>
     ELSE TFinish(TTop)

\* search_impl when the full-window re-search of move i has returned
TBack2 ==
  /\ tstack # << >>
  /\ TTop.fn = "s" /\ TTop.pc = "back2"
  /\ TFinish(TTop)

\* qsearch_impl at a leaf
TQ ==
  /\ tstack # << >>
  /\ TTop.fn = "q"
  /\ TDeliver(TQOut(TTop, stop[0]), IF stop[0] THEN 0 ELSE 1)
  /\ UNCHANGED << tt, th >>

\* ------------------------------------ the team of a parallel node
\* search-sht.cpp 161-201 run by a team of NThreads threads.  The node is
\* the top frame of the thread that entered the region, with pc = "team";
\* best, alpha and pv of that frame are the shared variables.  Thread x has
\*   pc     "idle" between iterations, "run1" in the first or scout search
\*          of its move, "cmp" before the test of line 176, "run2" in the
\*          re-search, "crit" before the critical section, "crit2" inside
\*          it after line 184, "done" at the end of the region
\*   i      the move of its iteration, stack the frames of its child search
\*   res    search_result, flag its local_stop_search
\*   seen   the value of alpha at its last synchronisation: a read of alpha
\*          outside the critical section races with the writes inside and
\*          gets that value or the present one
\*   used   the values it has read as alpha for the move of its iteration:
\*          the two of the scout window, the one of the test of line 176
\*          and the one of the re-search window
Threads == 1 .. NThreads

IdleThread(a) ==
  [pc |-> "idle", i |-> 0, stack |-> << >>, res |-> NoResult, flag |-> FALSE,
   seen |-> a, used |-> {}]

\* `#pragma omp for` with the static schedule: the moves of thread x
Mine(x, n) ==
  LET c == (n + NThreads - 1) \div NThreads
  IN { k \in 1 .. n : (x - 1) * c < k /\ k <= x * c }

\* what thread x may read as alpha outside the critical section
Reads(x) == {team.t[x].seen, TTop.alpha}

\* everything the team leaves alone
TeamRest ==
  UNCHANGED << inputs, posIn, io, calls, ttfrom, stop, depth, best_move, retval,
               sres, mpc, ms, chan0, chan1, wpc, wk, stack, hist >>

\* search_impl: increment_nodes, move generation, sort, and the team starts
PFork ==
  /\ tstack # << >> /\ ~team.on
  /\ TTop.fn = "s" /\ TTop.pc = "expand" /\ TTop.ply = team.ply
  /\ LET out == TExpandOut(TTop)
     IN IF out.kind = "ret"
        THEN TStep(out, 1) /\ UNCHANGED team
        ELSE /\ tstack' = [tstack EXCEPT
                             ![Len(tstack)] = [out.f EXCEPT !.i = 0, !.pc = "team"]]
             /\ nodes' = [nodes EXCEPT ![0] = @ + 1]
             /\ team' = [team EXCEPT
                           !.on = TRUE,
                           !.t = [x \in Threads |-> IdleThread(TTop.alpha)],
                           !.in = 0, !.cut = FALSE]
             /\ TeamRest
  /\ UNCHANGED << tt, th >>

\* thread x at the top of the loop body: no move left, `continue`, or the
\* first or scout search of its next move (lines 165-175)
PTake(x) ==
  /\ team.on /\ team.t[x].pc = "idle"
  /\ LET f == TTop
         me == team.t[x]
         rest == { k \in Mine(x, Len(f.moves)) : k > me.i }
         k == CHOOSE j \in rest : \A l \in rest : j <= l
     IN IF rest = {} THEN team' = [team EXCEPT !.t[x].pc = "done"]
        ELSE IF me.flag THEN team' = [team EXCEPT !.t[x].i = k]
        ELSE \E r1, r2 \in Reads(x) :
               /\ k = 1 => r1 = r2
               /\ team' = [team EXCEPT
                    !.t[x] = [me EXCEPT
                      !.i = k, !.pc = "run1", !.used = {r1, r2},
                      !.stack = << TFrame(Child(f.pos, f.moves[k]), f.ply + 1,
                                          f.depth - 1,
                                          IF k = 1 THEN -f.beta ELSE -r1 - 1, -r2) >>],
                    !.late = @ \/ team.cut]
  /\ TeamRest
  /\ UNCHANGED << tstack, nodes, tt, th >>

\* the step of frame f of a child search, e the entry its probe reads
FrameOut(f, e) ==
  IF f.fn = "q" THEN TQOut(f, stop[0])
  ELSE CASE f.pc = "enter" -> TEnterOut(f, stop[0], e)
         [] f.pc = "expand" -> TExpandOut(f)
         [] f.pc = "null" -> TNullOut(f)
         [] f.pc = "back1" -> TBack1Out(f, stop[0])
         [] f.pc = "back2" -> TPostOut(f, stop[0])

\* that step ends the move loop of f
Finishes(f) ==
  /\ f.fn = "s"
  /\ f.pc = "back2" \/ (f.pc = "back1" /\ ~(f.i > 1 /\ f.sub.score > f.alpha))
  /\ Completes(f, stop[0])

\* a step of the child search of thread x; the table is the shared one
PStep(x) ==
  /\ team.on /\ team.t[x].pc \in {"run1", "run2"}
  /\ LET me == team.t[x]
         f == me.stack[Len(me.stack)]
         e == Probe(tt, Hash(f.pos))
         out == FrameOut(f, e)
         cut == f.fn = "s" /\ f.pc = "enter" /\ out.kind = "ret"
                  /\ SEnterOut(f, stop[0], FALSE, 0).kind = "cont"
     IN /\ tt' = IF Finishes(f) THEN TableAfter(tt, Taken(f)) ELSE tt
        /\ th' = [th EXCEPT !.surplus = @ \/ (cut /\ e.depth > f.depth)]
        /\ nodes' = [nodes EXCEPT
                       ![0] = @ + (IF f.fn = "q" THEN (IF stop[0] THEN 0 ELSE 1)
                                   ELSE IF f.pc = "expand" THEN 1 ELSE 0)]
        /\ team' = [team EXCEPT
                      !.t[x] = IF out.kind = "ret" /\ Len(me.stack) = 1
                               THEN [me EXCEPT
                                       !.stack = << >>, !.res = Negate(out.r),
                                       !.pc = IF me.pc = "run1" /\ me.i > 1
                                              THEN "cmp" ELSE "crit"]
                               ELSE [me EXCEPT !.stack = After(me.stack, out)]]
  /\ TeamRest
  /\ UNCHANGED tstack

\* line 176-178: the scout search of thread x is compared with alpha, the
\* move is searched again on the full window
PCmp(x) ==
  /\ team.on /\ team.t[x].pc = "cmp"
  /\ LET f == TTop
         me == team.t[x]
     IN \E r1, r2 \in Reads(x) :
          IF me.res.score > r1
          THEN team' = [team EXCEPT
                 !.t[x] = [me EXCEPT
                   !.pc = "run2", !.used = @ \cup {r1, r2},
                   !.stack = << TFrame(Child(f.pos, f.moves[me.i]), f.ply + 1,
                                       f.depth - 1, -f.beta, -r2) >>]]
          ELSE r1 = r2 /\ team' = [team EXCEPT !.t[x].pc = "crit",
                                                !.t[x].used = @ \cup {r1}]
  /\ TeamRest
  /\ UNCHANGED << tstack, nodes, tt, th >>

\* thread x enters the critical section whoever is inside
PCrit1NoLock(x) ==
  /\ team.on /\ team.t[x].pc = "crit"
  /\ LET f == TTop
         me == team.t[x]
     IN IF me.res.score > f.best
        THEN /\ tstack' = [tstack EXCEPT ![Len(tstack)] =
                             [f EXCEPT !.best = me.res.score, !.bm = f.moves[me.i]]]
             /\ team' = [team EXCEPT !.in = x, !.t[x].pc = "crit2",
                                     !.t[x].used = {}]
        ELSE /\ team' = [team EXCEPT !.t[x].pc = "idle", !.t[x].seen = f.alpha,
                                     !.t[x].used = {}]
             /\ UNCHANGED tstack
  /\ TeamRest
  /\ UNCHANGED << nodes, tt, th >>

\* lines 181-184: thread x enters the critical section and takes its result
\* as best_score, or leaves
PCrit1(x) ==
  /\ team.on /\ team.t[x].pc = "crit" /\ team.in = 0
  /\ LET f == TTop
         me == team.t[x]
     IN IF me.res.score > f.best
        THEN /\ tstack' = [tstack EXCEPT ![Len(tstack)] =
                             [f EXCEPT !.best = me.res.score, !.bm = f.moves[me.i]]]
             /\ team' = [team EXCEPT !.in = x, !.t[x].pc = "crit2",
                                     !.t[x].used = {}]
        ELSE /\ team' = [team EXCEPT !.t[x].pc = "idle", !.t[x].seen = f.alpha,
                                     !.t[x].used = {}]
             /\ UNCHANGED tstack
  /\ TeamRest
  /\ UNCHANGED << nodes, tt, th >>

\* lines 185-199: alpha, pv and local_stop_search, and thread x leaves the
\* critical section
PCrit2(x) ==
  /\ team.on /\ team.t[x].pc = "crit2"
  /\ LET f == TTop
         me == team.t[x]
         raise == f.best > f.alpha
         alpha == IF raise THEN f.best ELSE f.alpha
         pv == IF raise /\ f.pvnode
               THEN << f.moves[me.i] >> \o (IF me.res.has THEN me.res.pv ELSE << >>)
               ELSE f.pv
         cutoff == raise /\ alpha >= f.beta
     IN /\ tstack' = [tstack EXCEPT ![Len(tstack)] =
                        [f EXCEPT !.alpha = alpha, !.pv = pv]]
        /\ team' = [team EXCEPT
                      !.in = 0, !.cut = @ \/ cutoff,
                      !.t[x] = [me EXCEPT !.pc = "idle", !.seen = alpha,
                                          !.flag = @ \/ cutoff]]
  /\ TeamRest
  /\ UNCHANGED << nodes, tt, th >>

\* the end of the parallel region: tt.write and the return (lines 201-206)
PJoin ==
  /\ team.on /\ \A x \in Threads : team.t[x].pc = "done"
  /\ tt' = TableAfter(tt, TTop)
  /\ th' = DoneNoted(th, tt, TTop)
  /\ TStep(Ret(Result(TTop.best, TRUE, TTop.pv)), 0)
  /\ team' = [team EXCEPT !.on = FALSE, !.t = << >>, !.cut = FALSE]

TeamNext ==
  \/ PFork
  \/ PJoin
  \/ \E x \in Threads : PTake(x) \/ PStep(x) \/ PCmp(x) \/ PCrit1(x) \/ PCrit2(x)

TTNext ==
  \/ TEnter
  \/ TExpand
  \/ TNull
  \/ TBack1
  \/ TBack2
  \/ TQ

\* ------------------------------------------------------ the specification
MasterNext ==
  \/ BmsEntry
  \/ StartSearch
  \/ RecvScore
  \/ RecvNodes
  \/ RecvPvLen
  \/ RecvPv
  \/ AfterSearch
  \/ Terminate

WorkerNext(w) ==
  \/ WRecvLen(w)
  \/ WRecvItem(w)
  \/ WSendScore(w)
  \/ WSendNodes(w)
  \/ WSendPvLen(w)
  \/ WSendPv(w)

FrameNext(p) ==
  \/ SEnter(p)
  \/ SExpand(p)
  \/ SBack1(p)
  \/ SBack2(p)
  \/ QEnter(p)
  \/ QExpand(p)
  \/ QBack(p)

\* everything the engine does; the stop command is the environment's
EngineNext ==
  \/ MasterNext
  \/ \E w \in Workers : WorkerNext(w)
  \/ \E p \in Procs : FrameNext(p)

Next == EngineNext \/ StopHandler

Spec == Init /\ [][Next]_vars

\* the MPI build with any number of processes and no stop command
InitMW == Init /\ variant = "mpi" /\ ~preset

SpecMW == InitMW /\ [][EngineNext]_vars

\* the same, every process running
FairMW == SpecMW /\ WF_vars(EngineNext)

\* every build with up to StopProcs processes and a stop command at any moment
InitStop == Init /\ size <= StopProcs

SpecStop == InitStop /\ [][Next]_vars

\* every process keeps running: the master, each worker and each search
FairStop == SpecStop /\ WF_vars(EngineNext)

\* every build with up to StopProcs processes and no stop command, every
\* process running
SpecRun == InitStop /\ [][EngineNext]_vars

FairRun == SpecRun /\ WF_vars(EngineNext)

\* several go commands in a row, each with a stop command at any moment
NextCalls == Next \/ GoAgain

SpecCalls == InitStop /\ [][NextCalls]_vars

\* the hybrid build with one worker, a root with one move and no stop
\* command: the worker searches the position after that move at every depth
InitHyb ==
  /\ max_depth = HybDepth
  /\ hybrid = TRUE
  /\ InitAny
  /\ variant = "mpi" /\ size = 2 /\ nroot = 1 /\ ~preset

SpecHyb == InitHyb /\ [][EngineNext]_vars

\* one process before best_move_search, the positions are those of the TT
\* runs: any evaluation, any mated position
InitGraph ==
  /\ size = 1
  /\ evalOf \in [1 .. LastPos -> Evals]
  /\ mated \in {NoPos} \cup (1 .. LastPos)
  /\ nroot = Len(MovesOf(0))
  /\ rootCheck = FALSE
  /\ preset = FALSE
  /\ mpc = "start"
  /\ stop = [p \in Procs |-> FALSE]
  /\ nodes = [p \in Procs |-> 0]
  /\ depth = 0
  /\ best_move = 0
  /\ retval = 0
  /\ sres = NoResult
  /\ ms = MsInit
  /\ chan0 = [w \in Workers |-> << >>]
  /\ chan1 = [w \in Workers |-> << >>]
  /\ wpc = [w \in Workers |-> "off"]
  /\ wk = [w \in Workers |-> WkInit]
  /\ stack = [p \in Procs |-> << >>]
  /\ hist = HistInit
  /\ calls = 1
  /\ ttfrom = [p \in Procs |-> {}]
  /\ tt = Cleared
  /\ tstack = << >>
  /\ th = ThInit

\* the builds with a TT searching with one process: the search is the one
\* that probes and stores
InitTT ==
  /\ variant \in {"sht", "mpi"}
  /\ hybrid \in BOOLEAN
  /\ (variant = "sht" => ~hybrid)
  /\ max_depth \in 1 .. MaxTTDepth
  /\ InitGraph
  /\ team = NoTeam
  /\ io = NoIo

\* The sequential search applied on its own to the root position, at any
\* depth.
InitSeq ==
  /\ variant = "rs"
  /\ hybrid = FALSE
  /\ max_depth \in 1 .. MaxTTDepth
  /\ InitGraph
  /\ team = NoTeam
  /\ io = [fn |-> "search", done |-> FALSE, out |-> 0]

\* the function returns `out`, nothing else changes
Returns(out) ==
  /\ io' = [io EXCEPT !.done = TRUE, !.out = out]
  /\ UNCHANGED << inputs, posIn, team, tt, tstack, th, calls, ttfrom, mpc, stop,
                  nodes, depth, best_move, retval, sres, ms, chan0, chan1, wpc,
                  wk, stack, hist >>

\* search(pos, sg, depth) is called and returns
ApplySearch ==
  /\ io.fn = "search" /\ ~io.done
  /\ Returns(SeqScore(0, max_depth))

SpecSeq == InitSeq /\ [][ApplySearch]_vars

\* search(pos, sg, depth) of a single-process build has called search_impl
\* for a root with moves: at depth 1 and at the depth of `go` without a
\* depth, MAX_PLY (main.cpp 48)
InitDeep ==
  /\ variant \in {"rs", "sht"}
  /\ hybrid = FALSE
  /\ size = 1
  /\ max_depth \in {1, MAX_PLY}
  /\ nroot \in 1 .. MaxRootMoves
  /\ (max_depth > 1 => nroot = 1)
  /\ rootCheck = FALSE
  /\ preset = FALSE
  /\ mpc = "local"
  /\ stop = [p \in Procs |-> FALSE]
  /\ nodes = [p \in Procs |-> 0]
  /\ depth = max_depth
  /\ best_move = 0
  /\ retval = 0
  /\ sres = NoResult
  /\ ms = MsInit
  /\ chan0 = [w \in Workers |-> << >>]
  /\ chan1 = [w \in Workers |-> << >>]
  /\ wpc = [w \in Workers |-> "off"]
  /\ wk = [w \in Workers |-> WkInit]
  /\ stack = [p \in Procs |->
                IF p = 0 THEN << NewFrame(0, depth, -INFINITE, INFINITE) >> ELSE << >>]
  /\ hist = HistInit
  /\ calls = 1
  /\ ttfrom = [p \in Procs |-> {}]
  /\ evalOf = [q \in 1 .. LastPos |-> 1]
  /\ mated = NoPos
  /\ tt = Cleared
  /\ tstack = << >>
  /\ th = ThInit
  /\ team = NoTeam
  /\ io = NoIo

SpecDeep == InitDeep /\ [][FrameNext(0)]_vars

\* a function applied on its own, the engine does nothing
InitFn ==
  /\ variant = "rs"
  /\ hybrid = FALSE
  /\ max_depth = 1
  /\ InitGraph
  /\ evalOf = [q \in 1 .. LastPos |-> 1]
  /\ mated = NoPos
  /\ team = NoTeam

\* positions without a capture, quiet or mated
QLeaves == [ev : Evals, chk : BOOLEAN, kids : {<< >>}]

\* positions with 1..n captures that lead to positions of `below`
QInner(n, below) ==
  UNION { [ev : Evals, chk : {FALSE}, kids : [1 .. k -> below]] : k \in 1 .. n }

\* the positions qsearch_impl is applied to: capture sequences of up to 2 plies
QTrees == QLeaves \cup QInner(MaxCaptures, QLeaves \cup QInner(1, QLeaves))

InitQ ==
  /\ InitFn
  /\ io \in [fn : {"qsearch"}, t : QTrees, alpha : (- WinMax) .. (WinMax - 1),
              beta : (1 - WinMax) .. WinMax, done : {FALSE}, out : {0}]
  /\ io.alpha < io.beta

\* qsearch_impl(pos, alpha, beta, ss, sg) at ply 1 is called and returns
ApplyQ ==
  /\ io.fn = "qsearch" /\ ~io.done
  /\ Returns(QRun(io.t, Frame("q", 1, 0, io.alpha, io.beta)).score)

SpecQ == InitQ /\ [][ApplyQ]_vars

\* the scores converted: around 0 and from every limit of the conversion to
\* the largest score
UciScores ==
  ((- INFINITE) .. (ScoreMargin - MAX_MATE_SCORE))
    \cup ((- ScoreMargin) .. ScoreMargin)
    \cup ((MAX_MATE_SCORE - ScoreMargin) .. INFINITE)

InitUci ==
  /\ InitFn
  /\ io \in [fn : {"uci"}, score : UciScores, done : {FALSE},
              out : {[type |-> "none", value |-> 0]}]

\* best_move_search converts the score of an iteration for the info line
ApplyUci ==
  /\ io.fn = "uci" /\ ~io.done
  /\ Returns(UciScore(io.score))

SpecUci == InitUci /\ [][ApplyUci]_vars

\* search-sht.cpp with a team of NThreads threads at the nodes of one ply:
\* at the root (OpenMP by default runs nested regions with one thread), or
\* at ply 1 (nested parallelism enabled with OMP_NUM_THREADS=1,2)
InitPar ==
  /\ variant = "sht"
  /\ hybrid = FALSE
  /\ max_depth \in 1 .. ParDepth
  /\ InitGraph
  /\ team \in {[NoTeam EXCEPT !.ply = k] : k \in 0 .. 1}
  /\ io = NoIo

NextPar ==
  \/ BmsEntry
  \/ TStart
  \/ TEnter
  \/ TExpand
  \/ TBack1
  \/ TBack2
  \/ TQ
  \/ TeamNext
  \/ AfterSearch
  \/ Terminate

SpecPar == InitPar /\ [][NextPar]_vars

NextTT ==
  \/ BmsEntry
  \/ TStart
  \/ TTNext
  \/ AfterSearch
  \/ Terminate

SpecTT == InitTT /\ [][NextTT]_vars

\* the same runs with a stop command at any moment
SpecTTStop == InitTT /\ [][NextTT \/ StopHandler]_vars

\* ================================================================ claims
\* states of the master between the score and the end of one reply
Collecting == {"recv_nodes", "recv_pvlen", "recv_pv"}

\* states of a worker that holds a work item
Working == {"search", "send_score", "send_nodes", "send_pvlen", "send_pv"}

\* the root search of the MPI build with workers has returned to the loop
RootSearchReturned == variant = "mpi" /\ size >= 2 /\ nroot > 0 /\ mpc = "check"

\* C1: in the master/worker root search every root move is dispatched to a
\* worker exactly once (never twice, never a move the root does not have),
\* and when search() returns exactly one reply has been collected for each
\* move: completed_moves equals total_moves, no reply is in flight and no
\* worker still holds an item.
C1_EveryMoveOnce ==
  /\ \A m \in 1 .. MaxRootMoves :
       /\ hist.dispatched[m] <= 1
       /\ hist.replied[m] <= hist.dispatched[m]
       /\ (m > nroot => hist.dispatched[m] = 0)
  /\ RootSearchReturned =>
       /\ \A m \in 1 .. nroot : hist.dispatched[m] = 1 /\ hist.replied[m] = 1
       /\ ms.completed = ms.total /\ ms.total = nroot
       /\ \A w \in Workers : chan1[w] = << >> /\ wpc[w] \notin Working

C1_Witness ==
  /\ RootSearchReturned
  /\ size >= 3 /\ nroot >= 2 /\ depth >= 2
  /\ \A m \in 1 .. nroot : hist.replied[m] = 1

\* work items worker w has been sent and the master has not finished
\* collecting: in the channel, at the worker, or as a reply not yet consumed
Outstanding(w) ==
  Cardinality({i \in 1 .. Len(chan0[w]) : chan0[w][i].kind = "fen"})
  + (IF wpc[w] \in Working THEN 1 ELSE 0)
  + (IF wpc[w] \notin Working /\ (chan1[w] # << >> \/ (mpc \in Collecting /\ ms.cur = w))
     THEN 1 ELSE 0)

\* C2: each worker holds at most one outstanding work item at any moment,
\* the master's busy flag says which, and a reply being collected is
\* attributed to worker_moves[source], which is the root move whose position
\* that worker searched for this reply.
C2_OneItemRightMove ==
  /\ \A w \in Workers :
       /\ Outstanding(w) <= 1
       /\ (mpc \in {"recv_score"} \cup Collecting => (ms.busy[w] <=> Outstanding(w) = 1))
  /\ mpc \in Collecting =>
       /\ ms.cmove = ms.wmoves[ms.cur]
       /\ ms.cmove = hist.call[ms.cur].move

C2_Witness ==
  /\ mpc \in Collecting
  /\ ms.cur = 2 /\ ms.cmove = 2
  /\ Outstanding(1) = 1 /\ wpc[1] = "search"

\* C3: the result the master/worker root search returns has the maximum
\* over all root moves of the negated score the worker reported for the move,
\* and its PV starts with a root move that achieves the maximum.
C3_MaxOfNegated ==
  RootSearchReturned =>
    /\ \A m \in 1 .. nroot : hist.reported[m] # NoScore /\ sres.score >= - hist.reported[m]
    /\ sres.has /\ sres.pv # << >>
    /\ sres.pv[1] \in 1 .. nroot
    /\ sres.score = - hist.reported[sres.pv[1]]

\* the second move wins although the first move's reply was collected last
C3_Witness ==
  /\ RootSearchReturned
  /\ size >= 3 /\ nroot >= 2
  /\ sres.pv[1] = 2
  /\ - hist.reported[2] > - hist.reported[1]
  /\ ms.cmove = 1

\* C4: whenever the master posts the any-source receive for a score, the
\* oldest undelivered tag-1 message of every worker is a score; from the
\* worker it matched the master then consumes the node count, the PV length
\* and, exactly when the PV length is positive, the PV array, and the score
\* it holds is the one that worker sent for the move it searched.
C4_RepliesStayAligned ==
  /\ mpc = "recv_score" =>
       \A w \in Workers : chan1[w] # << >> => Head(chan1[w]).kind = "score"
  /\ mpc = "recv_nodes" => hist.rx = << "score" >>
  /\ mpc = "recv_pvlen" => hist.rx = << "score", "nodes" >>
  /\ mpc = "recv_pv" => hist.rx = << "score", "nodes", "pvlen" >> /\ ms.pvlen > 0
  /\ (mpc \in {"recv_score", "check"} /\ hist.rx # << >>) =>
       hist.rx = IF ms.pvlen > 0 THEN << "score", "nodes", "pvlen", "pv" >>
                 ELSE << "score", "nodes", "pvlen" >>
  /\ mpc \in Collecting => ms.rscore = hist.reported[hist.call[ms.cur].move]

\* two replies wait at once, one of them with its PV array
C4_Witness ==
  /\ mpc = "recv_score"
  /\ Len(chan1[1]) = 4 /\ chan1[1][4].kind = "pv"
  /\ chan1[2] # << >>

\* C5: a worker sends exactly one reply per work item and nothing else: after
\* prefix -1 it has left the loop and sent nothing, after prefix 0 it waits
\* again and has sent nothing, after a positive prefix it calls search_impl
\* with depth - 1, the window [-INFINITE, +INFINITE] and ply 1 on the position
\* it was sent, and sends the score, the node count, the PV length and the PV
\* array when there is one.
C5_OneReplyPerItem ==
  \A w \in Workers :
    LET n == hist.msgs[w]
        owed == hist.owed[w]
        sig == hist.sig[w]
    IN CASE wpc[w] = "off" -> n = 0 /\ owed = 0
         [] wpc[w] = "exit" -> sig = -1 /\ n = 0 /\ owed = 0
         [] wpc[w] = "recv_len" ->
              /\ owed = 0
              /\ sig # -1
              /\ (sig = 0 => n = 0)
              /\ (sig > 0 => n \in {3, 4})
         [] wpc[w] = "recv_item" -> sig > 0 /\ n = 0 /\ owed = 0
         [] wpc[w] = "search" ->
              /\ sig > 0 /\ n = 0 /\ owed = 1
              /\ hist.call[w] = [move |-> ParseFen(wk[w].fen), alpha |-> -INFINITE,
                                 beta |-> INFINITE, depth |-> wk[w].search_depth - 1,
                                 ply |-> 1]
              /\ stack[w] # << >>
              /\ stack[w][1].ply = 1 /\ stack[w][1].depth = wk[w].search_depth - 1
         [] wpc[w] = "send_score" -> n = 0 /\ owed = 1
         [] wpc[w] = "send_nodes" -> n = 1 /\ owed = 0
         [] wpc[w] = "send_pvlen" -> n = 2 /\ owed = 0
         [] wpc[w] = "send_pv" -> n = 3 /\ owed = 0

\* a worker is back at its receive after a reply with a PV array, for a
\* depth-2 item it searched at depth 1
C5_Witness ==
  /\ wpc[1] = "recv_len" /\ hist.sig[1] > 0 /\ hist.msgs[1] = 4
  /\ hist.call[1].depth = 1
  /\ wpc[2] = "exit"

\* a terminate signal is in flight to worker w or has been taken by it
Terminated(w) ==
  \/ wpc[w] = "exit"
  \/ \E i \in 1 .. Len(chan0[w]) : chan0[w][i] = Msg("len", -1)

\* C6: the master sends the terminate signal (length prefix -1) only when
\* the iterative deepening loop has ended, never from inside the root search
\* of an iteration, also for a root position without legal moves.
C6_TerminateOnlyAfterLoop ==
  \A w \in Workers : Terminated(w) => mpc = "done"

\* search() has returned for a root without moves and the signal is out
C6_Witness ==
  /\ nroot = 0 /\ mpc = "check" /\ depth = 1
  /\ \A w \in Workers : w < size => chan0[w] = << Msg("len", -1) >>

\* the depths of the work items that are in flight or being searched
WorkDepths ==
  UNION { { chan0[w][i].val : i \in { j \in 1 .. Len(chan0[w]) : chan0[w][j].kind = "depth" } } :
          w \in Workers }
  \cup { wk[w].search_depth : w \in { x \in Workers : wpc[x] \in Working } }

MasterWorker == variant = "mpi" /\ size >= 2

\* C7 as stated: once the stop flag is set on the master no work item exists
\* for a depth greater than the depth searched when it was set, the first
\* depth included, and the call returns the best move of the last iteration
\* that completed before the flag was set (none when that was depth 1).
C7_AsStated ==
  (MasterWorker /\ hist.stopDepth > 0) =>
    /\ \A d \in WorkDepths : d <= hist.stopDepth
    /\ mpc = "done" =>
         retval = IF hist.stopDepth = 1 THEN 0 ELSE hist.iters[hist.stopDepth - 1]

\* C7 amended: once the stop flag is set during the iteration for depth
\* d >= 2, no work item is dispatched for a depth greater than d and the call
\* returns the best move of iteration d - 1; a flag set during the depth-1
\* iteration is not looked at by that iteration, so the depth-2 iteration is
\* still dispatched (never depth 3) and the call returns the depth-1 move.
C7_StopBoundsDispatch ==
  (MasterWorker /\ hist.stopDepth > 0) =>
    /\ \A d \in WorkDepths : d <= Max(hist.stopDepth, 2)
    /\ depth <= Max(hist.stopDepth, 2)
    /\ mpc = "done" =>
         /\ Len(hist.iters) >= Max(hist.stopDepth - 1, 1)
         /\ retval = hist.iters[Max(hist.stopDepth - 1, 1)]

C7_Witness ==
  /\ MasterWorker /\ hist.stopDepth = 2 /\ mpc = "done"
  /\ retval \in 1 .. nroot /\ nroot >= 2
  /\ wpc[1] = "recv_len" /\ chan0[1] = << >>

\* C8 as stated: with the stop flag set before the call, best_move_search
\* returns nullopt.
C8_AsStated ==
  (preset /\ mpc = "done") => retval = 0

\* C8 amended: best_move_search clears the stop flag at entry, so a flag set
\* before the call has no effect: the flag reads false until a stop command
\* arrives during the call, and the call returns nullopt only for a root
\* position without legal moves.
C8_PresetFlagCleared ==
  preset =>
    /\ (mpc # "start" /\ hist.stopDepth = 0) => ~stop[0]
    /\ mpc = "done" => (retval = 0 <=> nroot = 0)
    /\ (mpc = "done" /\ hist.stopDepth = 0 /\ nroot > 0) => Len(hist.iters) = max_depth

C8_Witness ==
  /\ preset /\ mpc = "done" /\ hist.stopDepth = 0
  /\ retval \in 1 .. nroot /\ depth > max_depth /\ max_depth >= 2

\* C9 as stated: a stop flag set while the iteration for depth d runs makes
\* best_move_search return the best move of the last iteration completed
\* before, and no move when d = 1.
C9_AsStated ==
  (hist.stopDepth > 0 /\ mpc = "done") =>
    retval = IF hist.stopDepth = 1 THEN 0 ELSE hist.iters[hist.stopDepth - 1]

\* C9 amended: a stop flag set while the iteration for depth d >= 2 runs
\* makes best_move_search drop that iteration's result and return the best
\* move of iteration d - 1; a flag set while the depth-1 iteration runs does
\* not stop it: its result is kept and returned (a move whenever the root has
\* one), and the results of later iterations are dropped.
C9_StopDropsIteration ==
  (hist.stopDepth > 0 /\ mpc = "done") =>
    /\ Len(hist.iters) = Max(hist.stopDepth - 1, 1)
    /\ retval = hist.iters[Len(hist.iters)]
    /\ (nroot > 0 => retval \in 1 .. nroot)

C9_Witness ==
  /\ hist.stopDepth = 2 /\ mpc = "done" /\ size = 1
  /\ retval \in 1 .. nroot
  /\ hist.active[0] >= 2

\* C10 as stated: the nodes counted after the flag was set, before the search
\* active at that moment returns, are at most one per frame active at that
\* moment, in every process.
C10_AsStated ==
  \A p \in Procs : hist.extra[p] <= hist.active[p]

\* C10 amended: after the stop flag is set during best_move_search the call
\* eventually returns, and in the process whose flag it is (the only process
\* of the single-process builds, the master of the MPI build) the frames
\* active at that moment count at most one further node; a worker's frames
\* do not read that flag and finish their work item.
C10_StopEndsSearch ==
  /\ [](hist.extra[0] <= 1 /\ hist.extra[0] <= hist.active[0])
  /\ (hist.stopDepth > 0) ~> (mpc = "done")

C10_Witness ==
  /\ mpc = "done" /\ hist.stopDepth = 2
  /\ hist.active[0] >= 2 /\ hist.extra[0] = 1

\* C11: within one best_move_search call the stop flag is cleared only by
\* the reset at entry: a step that finds the flag set and leaves it clear is
\* the entry of a call, so once set the flag stays set until the call returns.
C11_FlagClearedOnlyAtEntry ==
  [][(stop[0] /\ ~stop'[0]) => (mpc = "start" /\ mpc' = "iter")]_vars

\* the second call has cleared the flag at entry; the flag set during its
\* depth-1 pass is still set when the call returns after the depth-2 pass
C11_Witness ==
  /\ calls = 2 /\ mpc = "done"
  /\ hist.stopDepth = 1 /\ depth = 2
  /\ stop[0]

C13_DeltasAddUp ==
  (variant = "mpi" /\ size > 1 /\ nroot > 0) =>
    /\ \A w \in Workers :
         wpc[w] \in {"send_score", "send_nodes"} =>
           wk[w].nodes_searched = nodes[w] - wk[w].initial_nodes
    /\ (mpc = "check" => nodes[0] = hist.n0 + hist.rep)

\* the depth-2 root search of three processes has returned: two workers
\* reported counts, on top of the counts of the depth-1 root search
C13_Witness ==
  /\ size = 3 /\ nroot = 2 /\ depth = 2 /\ mpc = "check"
  /\ hist.n0 > 0 /\ hist.rep > 2
  /\ nodes[1] > 0 /\ nodes[2] > 0
  /\ nodes[0] = nodes[1] + nodes[2]

\* C14: TranspositionTable::store overwrites the slot exactly when the slot's
\* key differs from the incoming hash or the stored depth is at most the
\* incoming depth, and otherwise leaves every field of the slot unchanged; so
\* the depth a slot holds is at least the depth of every store made for its
\* key since the slot last changed key.
C14_DepthPreferred ==
  OwnTT =>
    /\ th.st # NoStore =>
         th.st.after = IF th.st.before.key # th.st.h \/ th.st.before.depth <= th.st.d
                       THEN th.st.new ELSE th.st.before
    /\ \A i \in Slots : tt[i].depth >= th.w[i].maxd

\* a store for the key of the slot was refused: the slot held a deeper entry
C14_Witness ==
  /\ OwnTT
  /\ th.st # NoStore
  /\ th.st.before.key = th.st.h /\ th.st.before.depth > th.st.d
  /\ th.st.after = th.st.before
  /\ th.st.new # th.st.before

\* C15: search_impl returns a score from the TT only when the key of the
\* slot equals the hash of the position and the stored depth is at least the
\* remaining depth; a slot not written since the table was cleared never
\* produces a return, also for a position whose hash equals the key of a
\* cleared slot.
C15_CutNeedsKeyAndDepth ==
  th.cut # NoCut =>
    /\ th.cut.e.key = Hash(th.cut.pos)
    /\ th.cut.e.depth >= th.cut.depth
    /\ th.cut.wply >= 0

\* the position that hashes to the key of a cleared slot was probed while
\* its slot was blank, and a later probe returned a stored score
C15_Witness ==
  /\ th.blank
  /\ th.cut # NoCut
  /\ th.cut.e.depth > th.cut.depth

\* C16: a PV node (alpha # beta - 1 after mate-distance pruning) never
\* returns a score from the TT.
C16_PvNodeNeverCuts ==
  th.cut # NoCut => ~th.cut.pvnode

\* a PV node of the build with its own table returned the stored score
C16_Witness ==
  /\ OwnTT
  /\ th.cut # NoCut
  /\ th.cut.pvnode

\* C17: the entry a node leaves in the TT when its move loop ends has bound
\* LOWER if best_score >= beta, UPPER if best_score <= the alpha the node was
\* called with, EXACT otherwise.
C17_BoundOfEntry ==
  (th.done # NoDone /\ th.done.mine) =>
    th.done.left.flag = BoundOfSpec(th.done.best, th.done.a0, th.done.beta)

\* a node of the build with its own table ended its loop on a beta cutoff
\* and left an UPPER entry
C17_Witness ==
  /\ OwnTT
  /\ th.done # NoDone /\ th.done.mine
  /\ th.done.best >= th.done.beta
  /\ th.done.left.flag = "UPPER"

\* C18: every node that completes its move loop, PV or not, writes an entry,
\* and the entry it leaves holds the move that produced best_score.
C18_BestMoveStored ==
  th.done # NoDone =>
    /\ th.done.wrote
    /\ th.done.mine => th.done.left.move = th.done.bm

\* a node of search-sht.cpp found a best move and left an entry without it
C18_Witness ==
  /\ variant = "sht"
  /\ th.done # NoDone /\ th.done.mine
  /\ th.done.bm # 0
  /\ th.done.left.move # th.done.bm

\* the score of an entry stored at ply p, as a probe at ply q must return it
Shifted(raw, p, q) ==
  IF raw >= MAX_MATE_SCORE THEN raw + p - q
  ELSE IF raw <= -MAX_MATE_SCORE THEN raw - p + q
  ELSE raw

\* C20: every build with a TT either normalizes mate scores (an entry stored
\* at ply p and probed at ply q comes back shifted by p - q) or takes no TT
\* cutoff from an entry whose score is a mate score.
C20_MateScoresNormalized ==
  (th.cut # NoCut /\ (th.cut.wraw >= MAX_MATE_SCORE \/ th.cut.wraw <= -MAX_MATE_SCORE)) =>
    th.cut.score = Shifted(th.cut.wraw, th.cut.wply, th.cut.ply)

\* search-sht.cpp returned a mate score stored at another ply as it was stored
C20_Witness ==
  /\ variant = "sht"
  /\ th.cut # NoCut
  /\ th.cut.wraw >= MAX_MATE_SCORE
  /\ th.cut.wply # th.cut.ply
  /\ th.cut.score = th.cut.wraw

\* C19: at the start of every best_move_search call the TT of every process
\* that searches during that call holds no entry from an earlier call, and
\* no entry is cleared between two depth iterations of the same call.
C19_TablesFreshEachCall ==
  /\ [](\A p \in Procs : stack[p] # << >> => ttfrom[p] \subseteq {calls})
  /\ [][\A p \in Procs : ttfrom[p] \subseteq ttfrom'[p] \/ mpc = "start"]_vars

\* a worker searches a work item of the second call with the entries of the
\* first call in its table
C19_Witness ==
  /\ variant = "mpi" /\ calls = 2
  /\ wpc[1] = "search" /\ stack[1] # << >>
  /\ 1 \in ttfrom[1]

\* C26: in the hybrid build a worker that receives a work item whose position
\* has at least 4 legal moves and whose search depth is at least 3 runs the
\* OpenMP branch of search_impl for it: no such node of a worker is in the
\* sequential move loop.
C26_WorkersSearchInParallel ==
  \A w \in Workers : \A j \in 1 .. Len(stack[w]) :
    LET f == stack[w][j]
    IN (hybrid /\ j = 1 /\ f.fn = "s" /\ f.pc \in {"back1", "back2"}
          /\ f.depth >= 3 /\ f.n >= 4)
       => UseOpenMP(f, f.n)

\* the worker searches the second of four moves of a depth-4 work item, at
\* depth 3, in the sequential loop
C26_Witness ==
  /\ hybrid /\ wpc[1] = "search" /\ wk[1].search_depth = 4
  /\ Len(stack[1]) >= 2
  /\ stack[1][1].depth = 3 /\ stack[1][1].n = WideMoves /\ stack[1][1].i = 2
  /\ stack[1][1].ply = 1

\* the negamax value of position q at ply `ply` to depth d: a leaf has the
\* value of qsearch_impl with the full window, a position without a legal
\* move is a draw or a mate at that ply
RECURSIVE Negamax(_, _, _)
Negamax(q, ply, d) ==
  IF d <= 0 THEN SeqRun(q, Frame("q", ply, 0, -INFINITE, INFINITE)).score
  ELSE IF MovesOf(q) = << >> THEN (IF q = mated THEN -MATE_SCORE + ply ELSE 0)
  ELSE LET vals == { - Negamax(Child(q, MovesOf(q)[k]), ply + 1, d - 1) :
                       k \in 1 .. Len(MovesOf(q)) }
       IN CHOOSE v \in vals : \A u \in vals : v >= u

\* C22: with the full window at the root, no stop flag and no TT, the
\* sequential search_impl returns at depth d the negamax value of the depth-d
\* tree: the scout searches and re-searches do not change it.
C22_SearchIsNegamax ==
  (io.fn = "search" /\ io.done) => io.out = Negamax(0, 0, max_depth)

\* a search to depth 2 or more has returned a score that is not the negamax
\* value, one of the positions is mated
C22_Witness ==
  /\ io.fn = "search" /\ io.done /\ max_depth >= 2
  /\ mated # NoPos
  /\ io.out # Negamax(0, 0, max_depth)

\* C23: a root search that uses the TT, cleared when best_move_search starts,
\* returns the same root score as the search of the same position to the
\* same depth without a TT.  Stated for the MPI builds and for the runs in
\* which every score taken from the table was stored by a search of exactly
\* the depth the node had left.
C23_SameScoreWithTT ==
  (mpc = "check" /\ variant = "mpi" /\ ~th.surplus)
    => sres.score = SeqScore(0, depth)

\* a root search to depth 3 of an MPI build has returned another score than
\* the search without a TT, no deeper entry was used
C23_Witness ==
  /\ mpc = "check" /\ variant = "mpi" /\ ~th.surplus /\ depth = 3
  /\ th.cut.pos # NoPos
  /\ sres.score # SeqScore(0, depth)

\* C27: for a position that is not in check and a window with alpha <=
\* evaluate(pos), qsearch_impl returns a score >= evaluate(pos), for every
\* beta > alpha, also a beta below evaluate(pos).
C27_StandPatFloor ==
  (io.fn = "qsearch" /\ io.done /\ ~io.t.chk /\ io.alpha <= io.t.ev)
    => io.out >= io.t.ev

\* C27 as the code has it: with no stop flag, for a position that is not in
\* check and a window with alpha <= evaluate(pos), qsearch_impl returns beta
\* when evaluate(pos) >= beta and a score >= evaluate(pos) otherwise.
C27_StandPatFloorToBeta ==
  (io.fn = "qsearch" /\ io.done /\ ~io.t.chk /\ io.alpha <= io.t.ev)
    => IF io.t.ev >= io.beta THEN io.out = io.beta ELSE io.out >= io.t.ev

\* qsearch_impl has returned for a position with captures, evaluation 1 and
\* the window (-1, 0), and for one with evaluation below beta
C27_Witness ==
  /\ io.fn = "qsearch" /\ io.done /\ ~io.t.chk
  /\ io.t.kids # << >> /\ io.t.ev = 1 /\ io.alpha = -1 /\ io.beta = 0
  /\ io.out = 0

\* C30: a score MATE_SCORE - k is reported as mate (k + 1) / 2, a score
\* -MATE_SCORE + k as mate -(k / 2), with the division of C++, for every k
\* from 0 to MAX_PLY; a score strictly between -MAX_MATE_SCORE and
\* MAX_MATE_SCORE is reported as that many centipawns.
C30_ScoreConversion ==
  (io.fn = "uci" /\ io.done) =>
    /\ \A k \in 0 .. MAX_PLY :
         /\ io.score = MATE_SCORE - k
              => io.out = [type |-> "mate", value |-> (k + 1) \div 2]
         /\ io.score = k - MATE_SCORE
              => io.out = [type |-> "mate", value |-> - (k \div 2)]
    /\ (- MAX_MATE_SCORE < io.score /\ io.score < MAX_MATE_SCORE)
         => io.out = [type |-> "cp", value |-> io.score]

\* the score of being mated in 3 plies has been converted
C30_Witness ==
  /\ io.fn = "uci" /\ io.done
  /\ io.score = 3 - MATE_SCORE
  /\ io.out = [type |-> "mate", value |-> -1]

C28_FramesInsideArray ==
  \A p \in Procs : \A j \in 1 .. Len(stack[p]) :
    /\ stack[p][1].ply + j - 1 < MAX_PLY
    /\ stack[p][j].ply = stack[p][1].ply + j - 1

\* the search to depth MAX_PLY has a line of MAX_PLY moves: the node at the
\* last element of the array, with depth 1 left, has called its child
C28_Witness ==
  /\ max_depth = MAX_PLY
  /\ Len(stack[0]) = MAX_PLY + 1
  /\ stack[0][MAX_PLY].ply = MAX_PLY - 1 /\ stack[0][MAX_PLY].depth = 1
  /\ stack[0][MAX_PLY + 1].fn = "q"

\* C24: at a parallel node, once a thread has raised alpha to alpha >= beta
\* in the critical section, no thread of the node starts the search of
\* another move: each thread sees the cutoff at its next loop iteration.
C24_CutoffStopsEveryThread == ~team.late

\* a thread of a team has raised alpha to beta while another thread of the
\* team still has its move to take
C24_Witness ==
  /\ team.on /\ team.cut
  /\ \E x, y \in Threads :
       /\ team.t[x].flag
       /\ team.t[y].pc = "idle" /\ team.t[y].i = 0 /\ Mine(y, Len(TTop.moves)) # {}

C21_ParallelScoreIsSequential ==
  (mpc = "check") => sres.score = SeqScore(0, depth)

\* a search of the root with a team of two threads, each with a move of its
\* own, has returned
C21_Witness ==
  /\ mpc = "check" /\ team.ply = 0 /\ ~stop[0]
  /\ nroot = NThreads /\ depth = ParDepth

HoldsItem(w) ==
  /\ w < size /\ ~Terminated(w)
  /\ \/ wpc[w] \in Working
     \/ \E i \in 1 .. Len(chan0[w]) : chan0[w][i].kind = "fen"

\* the master is in MPI_Recv(..., MPI_ANY_SOURCE, 1, ...) and no reply is there
MasterBlocked ==
  /\ MasterWorker /\ mpc = "recv_score"
  /\ \A w \in Workers : chan1[w] = << >>

\* C32: in the root search with workers, whenever the master blocks in its
\* any-source receive some worker holds a work item, and the root search
\* returns, with more workers than root moves, as many, or fewer.
C32_MasterNeverWaitsAlone ==
  /\ [](MasterBlocked => \E w \in Workers : HoldsItem(w))
  /\ (MasterWorker /\ mpc = "recv_score") ~> (mpc = "check")

\* two workers and one root move: the master waits for the reply of worker 1
\* while worker 2 has taken its no-work signal
C32_Witness ==
  /\ MasterBlocked /\ size = 3 /\ nroot = 1 /\ depth = 2
  /\ wpc[1] = "search" /\ HoldsItem(1)
  /\ wpc[2] = "recv_len" /\ chan0[2] = << >>

\* terminate signals the master has sent to worker w: the one that made it
\* leave its loop and those still in its channel
TermSent(w) ==
  (IF wpc[w] = "exit" THEN 1 ELSE 0)
  + Cardinality({i \in 1 .. Len(chan0[w]) : chan0[w][i] = Msg("len", -1)})

\* C33: when best_move_search of the master has returned, by whatever path,
\* each worker has been sent exactly one terminate signal.
C33_OneTerminateEach ==
  (variant = "mpi" /\ mpc = "done") =>
    \A w \in Workers : w < size => TermSent(w) = 1

\* the loop has run to max_depth, the one signal was sent and the worker has
\* left its loop with nothing left in its channel
C33_Witness ==
  /\ variant = "mpi" /\ size >= 2 /\ mpc = "done"
  /\ nroot > 0 /\ depth = max_depth + 1 /\ max_depth = MaxIterDepth
  /\ \A w \in Workers : w < size => (wpc[w] = "exit" /\ chan0[w] = << >>)

\* C34: in the MPI engine a second `go` in the same session is served like
\* the first one: while the master collects the replies of a later call the
\* workers are in their receive loop, so the call completes.
C34_SecondGoIsServed ==
  (MasterWorker /\ calls > 1 /\ mpc = "recv_score") =>
    \A w \in Workers : w < size => wpc[w] # "exit"

\* the master waits for the reply to a work item of the second call that
\* lies in the channel of a worker which has left its loop
C34_Witness ==
  /\ MasterBlocked /\ calls = 2 /\ ~stop[0]
  /\ wpc[1] = "exit"
  /\ \E i \in 1 .. Len(chan0[1]) : chan0[1][i].kind = "fen"
  /\ \A w \in Workers : ~HoldsItem(w)

\* C35: in every build a search node at ply > 0 whose child search has
\* returned with the stop flag set returns {0, empty} without searching a
\* further move and without writing the TT (it may only search the same move
\* again on the full window, which returns at once).
C35_StopCheckedAfterChild ==
  [][LET s == tstack
         k == Len(s)
     IN (k > 1 /\ stop[0] /\ s[k].fn = "s" /\ s[k].pc \in {"back1", "back2"}
           /\ tstack' # s)
        => \/ /\ Len(tstack') = k - 1
              /\ tstack'[k - 1].sub.score = 0 /\ tstack'[k - 1].sub.pv = << >>
              /\ tt' = tt
           \/ /\ s[k].pc = "back1"
              /\ Len(tstack') = k + 1
              /\ tstack'[k].pc = "back2" /\ tstack'[k].i = s[k].i]_vars

\* the first child of a node at ply 1 has returned with the flag set, and
\* the node has a second move
C35_Witness ==
  /\ stop[0] /\ Len(tstack) = 2
  /\ TTop.fn = "s" /\ TTop.ply = 1 /\ TTop.pc = "back1"
  /\ TTop.i = 1 /\ Len(TTop.moves) = 2

\* C36: for every non-first move of a node, the scout window, the fail-high
\* test score > alpha and the re-search window use one and the same value of
\* alpha, also when the node is run by a team whose other threads raise the
\* shared alpha in between.
C36_OneAlphaPerMove ==
  team.on => \A x \in Threads :
               team.t[x].i > 1 => Cardinality(team.t[x].used) <= 1

C36_Witness ==
  /\ team.on
  /\ TTop.alpha > TTop.a0
  /\ \E x \in Threads : /\ team.t[x].i > 1
                        /\ team.t[x].pc = "run2"
                        /\ team.t[x].used # {}

\* C37: once the stop flag is set no node writes the TT: no entry is made
\* from a score that was computed from the {0, empty} sentinel of a stopped
\* child.  (The table is cleared at the entry of best_move_search, where the
\* flag is reset.)
C37_NoWriteOnceStopped ==
  [][(stop[0] /\ mpc # "start") => tt' = tt]_vars

C37_Witness ==
  /\ stop[0] /\ variant # "sht"
  /\ Len(tstack) = 1
  /\ TTop.fn = "s" /\ TTop.pc = "back1"
  /\ TTop.i = Len(TTop.moves) /\ TTop.i > 1
  /\ TTop.sub.score = 0 /\ TTop.best = 0
  /\ Stores(Taken(TTop))
  /\ TableAfter(tt, Taken(TTop)) # tt

\* C38: search_impl and qsearch_impl leave the position they were given
\* unchanged on every return path, the returns on the stop flag and the
\* null-move branch included: the moves on the Position object of a process
\* are at every moment those of the frames that wait for a child or have
\* just got one back, so a frame that returns (or is the last to return)
\* leaves what it was given.
MovesOnBoard(s) ==
  LET k == Len(s)
      n == IF k > 0 /\ s[k].pc \in {"back1", "back2", "null"} THEN k ELSE k - 1
  IN [j \in 1 .. n |-> IF s[j].pc = "null" THEN 0 ELSE s[j].i]

C38_PositionLeftAsGiven ==
  /\ hist.board[0] = MovesOnBoard(IF tstack # << >> THEN tstack ELSE stack[0])
  /\ \A w \in Workers : hist.board[w] = MovesOnBoard(stack[w])
  /\ mpc \in {"check", "done"} => hist.board[0] = << >>

C38_Witness ==
  /\ stop[0]
  /\ Len(tstack) = 2
  /\ TTop.fn = "s" /\ TTop.pc = "null" /\ TTop.sub.score = 0
  /\ hist.board[0] = << tstack[1].i, 0 >>

\* C39: every node at ply > 0 that is past mate-distance pruning has a
\* window with -MATE_SCORE + ply <= alpha < beta <= MATE_SCORE - ply, and a
\* node whose pruned window is empty returns {alpha, empty} at once: no TT
\* probe, no node counted, no move generated.
PastPruning(f) == f.fn = "s" /\ f.ply > 0 /\ f.pc # "enter"

C39_MateDistanceWindow ==
  /\ [](\A j \in 1 .. Len(tstack) :
          PastPruning(tstack[j]) =>
            /\ -MATE_SCORE + tstack[j].ply <= tstack[j].alpha
            /\ tstack[j].alpha < tstack[j].beta
            /\ tstack[j].beta <= MATE_SCORE - tstack[j].ply)
  /\ [][LET k == Len(tstack)
            f == tstack[k]
            a == Max(-MATE_SCORE + f.ply, f.alpha)
            b == Min(MATE_SCORE - f.ply, f.beta)
        IN (/\ k > 1 /\ tstack' # tstack
            /\ f.fn = "s" /\ f.pc = "enter" /\ f.ply > 0 /\ f.ply < MAX_PLY
            /\ ~stop[0] /\ a >= b)
           => /\ Len(tstack') = k - 1
              /\ tstack'[k - 1].sub = Negate(Bare(a))
              /\ nodes' = nodes /\ tt' = tt /\ th' = th]_vars

C39_Witness ==
  /\ tstack # << >>
  /\ TTop.fn = "s" /\ TTop.pc = "back1" /\ TTop.i > 1
  /\ TTop.alpha = MATE_SCORE - TTop.ply - 1
  /\ TTop.sub = Result(TTop.alpha, variant = "sht", << >>)
  /\ Child(TTop.pos, TTop.moves[TTop.i]) # mated
  /\ Len(tstack) > 1 => PastPruning(TTop)

\* C40 as stated: with the stop flag never set, best_move_search calls the
\* root search for the depths 1, 2, ... in increasing order up to max_depth,
\* emits one progress line per depth in that order, and returns the first
\* move of the last non-empty PV.
UpTo(n) == [i \in 1 .. n |-> i]

C40_DeepensToMaxDepth ==
  /\ hist.roots = UpTo(Len(hist.roots))
  /\ hist.lines = UpTo(Len(hist.lines))
  /\ mpc = "done" => /\ hist.roots = UpTo(max_depth)
                     /\ hist.lines = UpTo(max_depth)
                     /\ retval = hist.lastpv

\* C40 amended: the depths run up to max_depth or up to the first depth
\* whose result has no PV (search-rs.cpp: absent; MPI build: absent or
\* empty), which ends the loop without a progress line; search-sht.cpp
\* always runs to max_depth.  One progress line per depth that did not end
\* the loop, in order; the value returned is the first move of the last
\* non-empty PV, none if there was no such PV.
NoPvEndsLoop ==
  \/ variant = "rs" /\ ~sres.has
  \/ variant = "mpi" /\ (~sres.has \/ sres.pv = << >>)

C40_DeepensUntilNoPv ==
  /\ hist.roots = UpTo(Len(hist.roots))
  /\ hist.lines = UpTo(Len(hist.lines))
  /\ Len(hist.roots) <= max_depth
  /\ mpc = "done" =>
        LET k == Len(hist.roots)
        IN /\ k >= 1
           /\ k < max_depth => NoPvEndsLoop
           /\ hist.lines = UpTo(IF NoPvEndsLoop THEN k - 1 ELSE k)
           /\ retval = hist.lastpv

C40_Witness ==
  /\ mpc = "done" /\ max_depth = MaxIterDepth /\ nroot > 1
  /\ hist.roots = UpTo(max_depth) /\ hist.lines = UpTo(max_depth)
  /\ retval = hist.lastpv /\ retval # 0

====
